---- MODULE Spec2Model ----
(***************************************************************************)
(* A model of pycvsps (src/pycvsps/cvsps.py): the changeset synthesizer    *)
(* createchangeset, with the changeset class it uses, the log collector    *)
(* createlog (its line state machine and its parent pass), and the         *)
(* command-line program (main and debugcvsps) that runs the two and        *)
(* prints the changesets.                                                  *)
(*                                                                         *)
(* Python values are modelled as follows.                                  *)
(*   None                  the string "None" (no name of the model is it)  *)
(*   a str                 a TLA+ string; Python's order on the strings    *)
(*                         that occur is given by Rank                     *)
(*   a tuple / a list      a sequence                                      *)
(*   a set / a dict        a set / a function                              *)
(*   an object reference   the index of the object in heap (changesets     *)
(*                         are mutable and referenced from parents)        *)
(***************************************************************************)
EXTENDS Integers, Sequences, FiniteSets, TLC

VARIABLES
    \* ---- createchangeset ----
    pc,          \* the position in createchangeset / createlog
    fuzz,        \* parameter fuzz
    log,         \* the list of logentry records (sorted in place)
    heap,        \* every changeset object ever created, by reference
    changesets,  \* the list changesets: references into heap
    cur,         \* grouping: the current changeset c (0: None)
    k,           \* grouping: the number of log entries already grouped
    globaltags,  \* dict tag -> changeset reference
    branches,    \* dict branch -> index into changesets
    i,           \* parent pass: loop index (0-based, as in the code)
    n,           \* parent pass: loop bound
    odd,         \* set of (l, r) pairs recorded by cscmp
    warnings,    \* what ui.warn was called with, in order
    err,         \* the exception that ended the run ("" while none)
    \* ---- createlog ----
    rlog,        \* parameter rlog
    cache,       \* parameter cache: None, "read", "write" or "update"
    readable,    \* whether the cache file can be unpickled
    cachefile,   \* the log in the cache file
    input,       \* the lines the cvs subprocess writes
    nread,       \* the number of lines read from the subprocess
    launched,    \* whether the cvs subprocess was started
    written,     \* whether the cache file was written
    state,       \* the parser's state
    peek,        \* the lookahead line
    tags,        \* dict revision -> list of tag names, of the current file
    branchmap,   \* dict branch name -> revision string, of the current file
    rcsmap,      \* dict file -> RCS file
    rcs,         \* RCS file of the current record
    filename,    \* working file of the current record
    e,           \* the logentry under construction
    store,       \* set when e can be appended
    oldlog,      \* the log read from the cache
    \* ---- debugcvsps and main ----
    phase,       \* what runs: "lib" (a function called on its own),
                 \* "createlog", "createchangeset", "print" or "exit"
    opts,        \* the options of the command line
    off,         \* printing is off until the start marker (0: not off)
    taken,       \* the number of changesets the printing loop has taken
    dbranches,   \* debugcvsps's dict branches: branch -> latest id
    ancestors,   \* dict branch -> (parent branch, parent id)
    stdout,      \* what ui.write has written, in order
    status       \* the exit status of the program (-1 while it runs)

vars == <<pc, fuzz, log, heap, changesets, cur, k, globaltags, branches, i, n,
          odd, warnings, err, rlog, cache, readable, cachefile, input, nread,
          launched, written, state, peek, tags, branchmap, rcsmap, rcs,
          filename, e, store, oldlog, phase, opts, off, taken, dbranches,
          ancestors, stdout, status>>

clivars == <<phase, opts, off, taken, dbranches, ancestors, stdout, status>>

csvars == <<fuzz, heap, changesets, cur, k, globaltags, branches, i, n, odd,
            warnings>>

logvars == <<rlog, cache, readable, cachefile, input, nread, launched,
             written, state, peek, tags, branchmap, rcsmap, rcs, filename, e,
             store, oldlog>>

-----------------------------------------------------------------------------
(* Python values *)

None == "None"

\* x or '' (cvsps.py:658, 661)
OrEmpty(x) == IF x = None THEN "" ELSE x

\* The strings of the model in Python's order (by code point): their rank.
Rank(s) ==
    CASE s = "" -> 0
      [] s = "/cvs/r/a,v" -> 1
      [] s = "BR" -> 2
      [] s = "BR2" -> 3
      [] s = "HEAD" -> 4
      [] s = "T" -> 5
      [] s = "T2" -> 6
      [] s = "V" -> 7
      [] s = "X" -> 8
      [] s = "a" -> 9
      [] s = "b" -> 10
      [] s = "c" -> 11
      [] s = "c1" -> 12
      [] s = "c2" -> 13
      [] s = "d" -> 14
      [] s = "d/a" -> 15
      [] s = "file a was added on branch BR" -> 16
      [] s = "file b was added on branch BR" -> 17
      [] s = "file c was added on branch BR" -> 18
      [] s = "m" -> 19
      [] s = "m {{mergefrombranch BR}}" -> 20
      [] s = "m {{mergefrombranch HEAD}}" -> 21
      [] s = "m {{mergefrombranch X}}" -> 22
      [] s = "m {{mergetobranch BR}}" -> 23
      [] s = "m {{mergetobranch HEAD}}" -> 24
      [] s = "n" -> 25
      [] s = "r/Attic/a,v" -> 26
      [] s = "r/Attic/b,v" -> 27
      [] s = "r/a,v" -> 28
      [] s = "r/b,v" -> 29
      [] s = "r/c,v" -> 30
      [] s = "u" -> 31
      [] s = "x/c,v" -> 32

StrLt(a, b) == Rank(a) < Rank(b)

\* tuple < tuple for two-element tuples of integers (dates)
PairLt(a, b) == a[1] < b[1] \/ (a[1] = b[1] /\ a[2] < b[2])

\* tuple < tuple for tuples of integers of any length (revisions)
RECURSIVE TupleLt(_, _)
TupleLt(a, b) ==
    IF a = <<>> THEN b # <<>>
    ELSE IF b = <<>> THEN FALSE
    ELSE IF Head(a) # Head(b) THEN Head(a) < Head(b)
    ELSE TupleLt(Tail(a), Tail(b))

\* list < list for lists of strings (cvsps.py:716)
RECURSIVE StrListLt(_, _)
StrListLt(a, b) ==
    IF a = <<>> THEN b # <<>>
    ELSE IF b = <<>> THEN FALSE
    ELSE IF Head(a) # Head(b) THEN StrLt(Head(a), Head(b))
    ELSE StrListLt(Tail(a), Tail(b))

\* sum(date)
DateSum(d) == d[1] + d[2]

Range(s) == {s[j] : j \in DOMAIN s}

\* s[:-1] and s[:-2]
ButLast(s) == IF Len(s) < 1 THEN <<>> ELSE SubSeq(s, 1, Len(s) - 1)
ButLast2(s) == IF Len(s) < 2 THEN <<>> ELSE SubSeq(s, 1, Len(s) - 2)

Reverse(s) == [j \in 1..Len(s) |-> s[Len(s) + 1 - j]]

-----------------------------------------------------------------------------
(* parse_revision, on revision strings given as sequences of characters    *)

Digit(ch) ==
    CASE ch = "0" -> 0 [] ch = "1" -> 1 [] ch = "2" -> 2 [] ch = "3" -> 3
      [] ch = "4" -> 4 [] ch = "5" -> 5 [] ch = "6" -> 6 [] ch = "7" -> 7
      [] ch = "8" -> 8 [] ch = "9" -> 9

\* str.split(sep) for a one-character sep: the list of the pieces between
\* the separators, which are at the places cuts (0 and Len(s) + 1 stand for
\* the ends of the string)
Split(s, sep) ==
    LET cuts == {0} \cup {j \in 1..Len(s) : s[j] = sep} \cup {Len(s) + 1}
        starts == cuts \ {Len(s) + 1}
        Nth(m) == CHOOSE c \in starts :
                      Cardinality({d \in starts : d < c}) = m - 1
        After(c) == CHOOSE d \in cuts :
                        d > c /\ \A d2 \in cuts : d2 > c => d <= d2
    IN  [m \in 1..Cardinality(starts) |->
            SubSeq(s, Nth(m) + 1, After(Nth(m)) - 1)]

\* int(piece) of a string of digits; -1 stands for the ValueError int('')
\* raises
RECURSIVE IntOf(_, _)
IntOf(piece, acc) ==
    IF piece = <<>> THEN acc
    ELSE IntOf(Tail(piece), 10 * acc + Digit(Head(piece)))

PieceInt(piece) == IF piece = <<>> THEN -1 ELSE IntOf(piece, 0)

\* The value that stands for parse_revision raising ValueError.
ValueError == <<-1>>

\* parse_revision collapsing a magic branch number, as state 3 does for the
\* symbolic names (cvsps.py:300-303)
parse_revision_collapsing(revision) ==
    LET pieces == Split(revision, ".")
        ints == [j \in 1..Len(pieces) |-> PieceInt(pieces[j])]
        len == Len(ints)
    IN  IF \E j \in 1..len : ints[j] = -1 THEN ValueError
        ELSE IF len > 3 /\ len % 2 = 0 /\ ints[len - 1] = 0
        THEN Append(SubSeq(ints, 1, len - 2), ints[len])
        ELSE ints

parse_revision(revision) ==
    LET pieces == Split(revision, ".")
        ints == [j \in 1..Len(pieces) |-> PieceInt(pieces[j])]
    IN  IF \E j \in 1..Len(ints) : ints[j] = -1 THEN ValueError ELSE ints

-----------------------------------------------------------------------------
(* list.sort, as CPython runs it on a list of fewer than 64 elements: the  *)
(* first run is counted (and reversed when strictly descending), the rest  *)
(* is inserted by binary insertion.  The only comparison it makes is       *)
(* x < y on the keys; Lt(kind, ctx, x, y) is that comparison for the two   *)
(* sorts of createchangeset, and the sort returns, with the sorted list,   *)
(* the pairs it compared (cscmp has a side effect on each).                *)

\* mindate (cvsps.py:646-652): dict commitid -> earliest date
MinDateOf(lg) ==
    LET cids == {lg[j].commitid : j \in DOMAIN lg} \ {None, ""}
        dates(c) == {lg[j].date : j \in {x \in DOMAIN lg : lg[x].commitid = c}}
    IN  [c \in cids |->
            CHOOSE d \in dates(c) : \A d2 \in dates(c) : d = d2 \/ PairLt(d, d2)]

\* The sort key of an entry (cvsps.py:656-664), compared as tuples are:
\* by the first component that differs.
LogKeyLt(mindate, x, y) ==
    LET md(z) == IF z.commitid \in DOMAIN mindate
                 THEN mindate[z.commitid] ELSE <<-1, 0>>
    IN  IF md(x) # md(y) THEN PairLt(md(x), md(y))
        ELSE IF OrEmpty(x.commitid) # OrEmpty(y.commitid)
             THEN StrLt(OrEmpty(x.commitid), OrEmpty(y.commitid))
        ELSE IF x.comment # y.comment THEN StrLt(x.comment, y.comment)
        ELSE IF x.author # y.author THEN StrLt(x.author, y.author)
        ELSE IF OrEmpty(x.branch) # OrEmpty(y.branch)
             THEN StrLt(OrEmpty(x.branch), OrEmpty(y.branch))
        ELSE IF x.date # y.date THEN PairLt(x.date, y.date)
        ELSE IF x.branchpoints # y.branchpoints
             THEN x.branchpoints \subseteq y.branchpoints
        ELSE FALSE

\* changeset.is_child (cvsps.py:630-634)
is_child(self, other) ==
    \E j \in DOMAIN self.entries :
        <<self.entries[j].rcs, self.entries[j].parent>> \in other.versions

\* c(x, y) of cscmp: (x > y) - (x < y), given x < y and x > y
Cmp3(lt, gt) == (IF gt THEN 1 ELSE 0) - (IF lt THEN 1 ELSE 0)

FilesOf(c) == [j \in DOMAIN c.entries |-> c.entries[j].file]

\* cscmp without its comparison of the dates: the changesets are ordered by
\* who is whose child, by size, by files and by branchpoints only
cscmp_dateless(l, r) ==
    LET d1 == IF is_child(l, r) THEN 1 ELSE 0
        d2 == IF is_child(r, l) THEN -1 ELSE d1
        d3 == IF d2 = 0
              THEN Cmp3(Len(l.entries) < Len(r.entries),
                        Len(l.entries) > Len(r.entries))
              ELSE d2
        d4 == IF d3 = 0
              THEN Cmp3(StrListLt(FilesOf(l), FilesOf(r)),
                        StrListLt(FilesOf(r), FilesOf(l)))
              ELSE d3
    IN  IF d4 = 0
        THEN Cmp3(Cardinality(l.branchpoints) < Cardinality(r.branchpoints),
                  Cardinality(l.branchpoints) > Cardinality(r.branchpoints))
        ELSE d4

\* cscmp (cvsps.py:686-721) on two changeset objects: the value returned
cscmp(l, r) ==
    LET d0 == DateSum(l.date) - DateSum(r.date)
        d1 == IF is_child(l, r) THEN 1 ELSE 0
        d2 == IF is_child(r, l) THEN -1 ELSE d1
        d3 == IF d2 = 0
              THEN Cmp3(Len(l.entries) < Len(r.entries),
                        Len(l.entries) > Len(r.entries))
              ELSE d2
        d4 == IF d3 = 0
              THEN Cmp3(StrListLt(FilesOf(l), FilesOf(r)),
                        StrListLt(FilesOf(r), FilesOf(l)))
              ELSE d3
        d5 == IF d4 = 0
              THEN Cmp3(Cardinality(l.branchpoints) < Cardinality(r.branchpoints),
                        Cardinality(l.branchpoints) > Cardinality(r.branchpoints))
              ELSE d4
    IN  IF d0 # 0 THEN d0 ELSE d5

\* cscmp's side effect: it records (l, r) as odd (cvsps.py:692-698)
IsOdd(l, r) ==
    /\ DateSum(l.date) = DateSum(r.date)
    /\ is_child(l, r)
    /\ is_child(r, l)

\* key (x.rcs, x.revision) of createlog's sort (cvsps.py:470, 474)
RcsRevLt(x, y) ==
    IF x.rcs # y.rcs THEN StrLt(x.rcs, y.rcs)
    ELSE TupleLt(x.revision, y.revision)

\* os.path.split(file): (head, tail); the files of the model have no
\* directory part but "d/a"
PathSplit(file) == IF file = "d/a" THEN <<"d", "a">> ELSE <<"", file>>

\* key tuple(enumerate(os.path.split(x.file))) of the file sort
\* (cvsps.py:680): ((0, head), (1, tail))
FileKeyLt(x, y) ==
    LET a == PathSplit(x.file)
        b == PathSplit(y.file)
    IN  IF a[1] # b[1] THEN StrLt(a[1], b[1]) ELSE StrLt(a[2], b[2])

\* x < y as a sort evaluates it, by the sort's key:
\*   "log"  the grouping key of two entries (ctx: the mindate dict)
\*   "cs"   cmp_to_key(cscmp) on two changeset references (ctx: the heap)
\*   "rcs"  (rcs, revision) of two entries
\*   "date" the date of two entries
\*   "str"  two strings
\*   "file" the split path of two entries
Lt(kind, ctx, x, y) ==
    CASE kind = "log" -> LogKeyLt(ctx, x, y)
      [] kind = "cs" -> cscmp(ctx[x], ctx[y]) < 0
      [] kind = "rcs" -> RcsRevLt(x, y)
      [] kind = "date" -> PairLt(x.date, y.date)
      [] kind = "str" -> StrLt(x, y)
      [] kind = "file" -> FileKeyLt(x, y)

\* count_run, descending case: the end of the strictly descending run
RECURSIVE RunDesc(_, _, _, _, _)
RunDesc(kind, ctx, s, j, cmps) ==
    IF j < Len(s)
    THEN IF Lt(kind, ctx, s[j + 1], s[j])
         THEN RunDesc(kind, ctx, s, j + 1, cmps \cup {<<s[j + 1], s[j]>>})
         ELSE [j |-> j, cmps |-> cmps \cup {<<s[j + 1], s[j]>>}]
    ELSE [j |-> j, cmps |-> cmps]

\* count_run, ascending case: the end of the non-descending run
RECURSIVE RunAsc(_, _, _, _, _)
RunAsc(kind, ctx, s, j, cmps) ==
    IF j < Len(s)
    THEN IF ~Lt(kind, ctx, s[j + 1], s[j])
         THEN RunAsc(kind, ctx, s, j + 1, cmps \cup {<<s[j + 1], s[j]>>})
         ELSE [j |-> j, cmps |-> cmps \cup {<<s[j + 1], s[j]>>}]
    ELSE [j |-> j, cmps |-> cmps]

\* binarysort's search for the place of pivot in the sorted s[l+1..r]
RECURSIVE BinaryPos(_, _, _, _, _, _, _)
BinaryPos(kind, ctx, s, pivot, l, r, cmps) ==
    IF l >= r THEN [pos |-> l, cmps |-> cmps]
    ELSE LET p == l + ((r - l) \div 2)
             seen == cmps \cup {<<pivot, s[p + 1]>>}
         IN  IF Lt(kind, ctx, pivot, s[p + 1])
             THEN BinaryPos(kind, ctx, s, pivot, l, p, seen)
             ELSE BinaryPos(kind, ctx, s, pivot, p + 1, r, seen)

InsertAt(s, pos, x) ==
    SubSeq(s, 1, pos) \o <<x>> \o SubSeq(s, pos + 1, Len(s))

\* binarysort: s[1..start-1] is sorted, the rest is inserted one by one
RECURSIVE BinarySort(_, _, _, _, _)
BinarySort(kind, ctx, s, start, cmps) ==
    IF start > Len(s) THEN [s |-> s, cmps |-> cmps]
    ELSE LET pivot == s[start]
             bp == BinaryPos(kind, ctx, s, pivot, 0, start - 1, cmps)
             t == InsertAt(SubSeq(s, 1, start - 1), bp.pos, pivot)
                    \o SubSeq(s, start + 1, Len(s))
         IN  BinarySort(kind, ctx, t, start + 1, bp.cmps)

\* list.sort: [s |-> the sorted list, cmps |-> the (x, y) compared as x < y]
PySort(kind, ctx, s) ==
    IF Len(s) < 2 THEN [s |-> s, cmps |-> {}]
    ELSE IF Lt(kind, ctx, s[2], s[1])
         THEN LET r == RunDesc(kind, ctx, s, 2, {<<s[2], s[1]>>})
              IN  BinarySort(kind, ctx,
                             Reverse(SubSeq(s, 1, r.j)) \o SubSeq(s, r.j + 1, Len(s)),
                             r.j + 1, r.cmps)
         ELSE LET r == RunAsc(kind, ctx, s, 2, {<<s[2], s[1]>>})
              IN  BinarySort(kind, ctx, s, r.j + 1, r.cmps)

-----------------------------------------------------------------------------
(* class changeset (cvsps.py:513-638)                                      *)

\* The value of branchpoints that stands for None (from_merge passes None
\* where a set is expected); no branch is named "None".
NoBranchpoints == {None}

\* changeset.__init__ (cvsps.py:528-544); id 0 stands for None
NewChangeset(author, branch, comment, date, commitid, branchpoints, mergepoint) ==
    [id |-> 0, entries |-> <<>>, parents |-> <<>>, tags |-> <<>>,
     synthetic |-> FALSE, files |-> {}, versions |-> {},
     author |-> author, branch |-> branch, comment |-> comment,
     date |-> date, commitid |-> commitid, branchpoints |-> branchpoints,
     mergepoint |-> mergepoint]

\* changeset._add keeping only the entry added last
Add_replacing(self, entry) ==
    [self EXCEPT
        !.synthetic = (self.entries = <<>>) /\ entry.synthetic,
        !.entries = <<entry>>,
        !.date = entry.date,
        !.files = self.files \cup {entry.file},
        !.versions = self.versions \cup {<<entry.rcs, entry.revision>>}]

\* changeset._add (cvsps.py:576-589)
Add(self, entry) ==
    [self EXCEPT
        !.synthetic = (self.entries = <<>>) /\ entry.synthetic,
        !.entries = Append(self.entries, entry),
        !.date = entry.date,
        !.files = self.files \cup {entry.file},
        !.versions = self.versions \cup {<<entry.rcs, entry.revision>>}]

\* changeset.from_logentry (cvsps.py:546-558)
from_logentry(entry) ==
    Add(NewChangeset(entry.author, entry.branch, entry.comment, entry.date,
                     entry.commitid, entry.branchpoints, entry.mergepoint),
        entry)

\* 'convert-repo: CVS merge from branch %s' % branch (cvsps.py:562, 566)
MergeComment(branch) ==
    CASE branch = None -> "convert-repo: CVS merge from branch None"
      [] branch = "BR" -> "convert-repo: CVS merge from branch BR"
      [] branch = "BR2" -> "convert-repo: CVS merge from branch BR2"

\* from_merge dating the merge changeset as the changeset merged to
from_merge_dated_as_target(from_cs, to_cs, from_ref, to_ref) ==
    [NewChangeset(from_cs.author, to_cs.branch, MergeComment(from_cs.branch),
                  to_cs.date, None, NoBranchpoints, None)
        EXCEPT !.parents = <<from_ref, to_ref>>]

\* changeset.from_merge (cvsps.py:560-574); from_ref and to_ref are the
\* references of from_cs and to_cs
from_merge(from_cs, to_cs, from_ref, to_ref) ==
    [NewChangeset(from_cs.author, to_cs.branch, MergeComment(from_cs.branch),
                  from_cs.date, None, NoBranchpoints, None)
        EXCEPT !.parents = <<from_ref, to_ref>>]

\* _can_cover without the test that the file is new to the changeset
can_cover_any_file(self, entry, fz) ==
    IF entry.branchpoints # self.branchpoints THEN FALSE
    ELSE IF self.commitid # None THEN entry.commitid = self.commitid
    ELSE /\ entry.commitid = None
         /\ entry.author = self.author
         /\ entry.branch = self.branch
         /\ entry.comment = self.comment
         /\ DateSum(self.date) <= DateSum(entry.date)
         /\ DateSum(entry.date) < DateSum(self.date) + fz

\* _can_cover with the window closed at its end: <= where the code has <
can_cover_closed_window(self, entry, fz) ==
    IF entry.branchpoints # self.branchpoints THEN FALSE
    ELSE IF self.commitid # None THEN entry.commitid = self.commitid
    ELSE /\ entry.commitid = None
         /\ entry.author = self.author
         /\ entry.branch = self.branch
         /\ entry.comment = self.comment
         /\ entry.file \notin self.files
         /\ DateSum(self.date) <= DateSum(entry.date)
         /\ DateSum(entry.date) <= DateSum(self.date) + fz

\* _can_cover without the test that an entry absorbed by a changeset
\* without commitid has no commitid either
can_cover_any_commitid(self, entry, fz) ==
    IF entry.branchpoints # self.branchpoints THEN FALSE
    ELSE IF self.commitid # None THEN entry.commitid = self.commitid
    ELSE /\ entry.author = self.author
         /\ entry.branch = self.branch
         /\ entry.comment = self.comment
         /\ entry.file \notin self.files
         /\ DateSum(self.date) <= DateSum(entry.date)
         /\ DateSum(entry.date) < DateSum(self.date) + fz

\* _can_cover without the lower end of the window
can_cover_no_lower_end(self, entry, fz) ==
    IF entry.branchpoints # self.branchpoints THEN FALSE
    ELSE IF self.commitid # None THEN entry.commitid = self.commitid
    ELSE /\ entry.commitid = None
         /\ entry.author = self.author
         /\ entry.branch = self.branch
         /\ entry.comment = self.comment
         /\ entry.file \notin self.files
         /\ DateSum(entry.date) < DateSum(self.date) + fz

\* changeset._can_cover (cvsps.py:591-622)
can_cover(self, entry, fz) ==
    IF entry.branchpoints # self.branchpoints THEN FALSE
    ELSE IF self.commitid # None THEN entry.commitid = self.commitid
    ELSE /\ entry.commitid = None
         /\ entry.author = self.author
         /\ entry.branch = self.branch
         /\ entry.comment = self.comment
         /\ entry.file \notin self.files
         /\ DateSum(self.date) <= DateSum(entry.date)
         /\ DateSum(entry.date) < DateSum(self.date) + fz

-----------------------------------------------------------------------------
(* createlog: what it computes for one entry when it stores it             *)

\* dict update d[key] = value
Put(d, key, value) ==
    [x \in DOMAIN d \cup {key} |-> IF x = key THEN value ELSE d[x]]

EmptyDict == [x \in {} |-> 0]

\* The conversion of a magic branch number to an odd-numbered one
\* (cvsps.py:300-303)
Demagic(rev) ==
    IF Len(rev) > 3 /\ Len(rev) % 2 = 0 /\ rev[Len(rev) - 1] = 0
    THEN Append(ButLast2(rev), rev[Len(rev)])
    ELSE rev

\* State 3 on a line "\tNAME: REV" (cvsps.py:296-308): the new tags dict
TagsPut(tg, name, revstr) ==
    LET rev == Demagic(parse_revision(revstr))
    IN  Put(tg, rev, IF rev \in DOMAIN tg THEN Append(tg[rev], name) ELSE <<name>>)

\* The tags dict and the branchmap after the symbolic names syms, a list of
\* (name, revision string), have been read
RECURSIVE TagsOf(_, _)
TagsOf(syms, tg) ==
    IF syms = <<>> THEN tg
    ELSE TagsOf(Tail(syms), TagsPut(tg, Head(syms)[1], Head(syms)[2]))

RECURSIVE BranchmapOf(_, _)
BranchmapOf(syms, bm) ==
    IF syms = <<>> THEN bm
    ELSE BranchmapOf(Tail(syms), Put(bm, Head(syms)[1], Head(syms)[2]))

\* file_added_re.match(line) (cvsps.py:162), on the lines of the model
FileAdded(line) ==
    line \in {"file a was added on branch BR", "file b was added on branch BR",
              "file c was added on branch BR"}

\* Synthetic detection (cvsps.py:427-434); comment is still the list of lines
IsSynthetic(ent) ==
    /\ ent.dead
    /\ ent.revision[Len(ent.revision)] = 1
    /\ Len(ent.comment) = 1
    /\ FileAdded(ent.comment[1])

\* '\n'.join(lines) (cvsps.py:440)
RECURSIVE Join(_)
Join(lines) ==
    IF lines = <<>> THEN ""
    ELSE IF Len(lines) = 1 THEN lines[1]
    ELSE lines[1] \o "\n" \o Join(Tail(lines))

\* The branch of a revision (cvsps.py:442-446)
BranchOf(tg, rev) ==
    IF Len(rev) > 3 /\ Len(rev) % 2 = 0
    THEN IF ButLast(rev) \in DOMAIN tg THEN tg[ButLast(rev)][1] ELSE None
    ELSE None

\* The branches starting from a revision (cvsps.py:448-461)
BranchpointsOf(bm, ent) ==
    {b \in DOMAIN bm :
        LET revparts == parse_revision(bm[b])
            len == Len(revparts)
        IN  /\ len >= 2
            /\ IF revparts[len - 1] = 0 /\ revparts[len] % 2 = 0
               THEN ButLast2(revparts) = ent.revision
               ELSE /\ revparts = <<1, 1, 1>>
                    /\ revparts \in Range(ent.branches)}

\* The store step (cvsps.py:427-463) on the entry ent, whose comment is the
\* list of its lines
StoreEntry(tg, bm, ent) ==
    [ent EXCEPT
        !.synthetic = IsSynthetic(ent),
        !.tags = IF ent.revision \in DOMAIN tg
                 THEN PySort("str", {}, tg[ent.revision]).s ELSE <<>>,
        !.comment = Join(ent.comment),
        !.branch = BranchOf(tg, ent.revision),
        !.branchpoints = BranchpointsOf(bm, ent)]

\* The logentry of state 5 (cvsps.py:329-336) with the fields state 6 sets
\* (cvsps.py:352-382); parent None is the empty tuple, lines is left out
\* (nothing reads it)
Scaffold(rcsfile, file, revstr, date, author, dead, commitid, mergepoint) ==
    [rcs |-> rcsfile, file |-> file, revision |-> parse_revision(revstr),
     branches |-> <<>>, parent |-> <<>>, commitid |-> commitid,
     mergepoint |-> mergepoint, branchpoints |-> {}, date |-> date,
     author |-> author, dead |-> dead, comment |-> <<>>, tags |-> <<>>,
     branch |-> None, synthetic |-> FALSE]

\* The parent pass with revision[:-1] where the code has revision[:-2]
RECURSIVE ParentsFromBranch(_, _, _)
ParentsFromBranch(lg, versions, done) ==
    IF lg = <<>> THEN done
    ELSE LET ent == Head(lg)
             key == <<ent.rcs, ButLast(ent.revision)>>
             p == IF key \in DOMAIN versions THEN versions[key]
                  ELSE ButLast(ent.revision)
         IN  ParentsFromBranch(Tail(lg), Put(versions, key, ent.revision),
                               Append(done, [ent EXCEPT !.parent = p]))

\* The parent pass over the new entries (cvsps.py:480-486), lg sorted by
\* (rcs, revision); versions is the dict (rcs, branch) -> revision
RECURSIVE ParentsFrom(_, _, _)
ParentsFrom(lg, versions, done) ==
    IF lg = <<>> THEN done
    ELSE LET ent == Head(lg)
             key == <<ent.rcs, ButLast(ent.revision)>>
             p == IF key \in DOMAIN versions THEN versions[key]
                  ELSE ButLast2(ent.revision)
         IN  ParentsFrom(Tail(lg), Put(versions, key, ent.revision),
                         Append(done, [ent EXCEPT !.parent = p]))

\* The old log with its rcs names renewed (cvsps.py:474-476)
RenewRcs(old, rmap) ==
    [j \in DOMAIN old |->
        IF old[j].file \in DOMAIN rmap
        THEN [old[j] EXCEPT !.rcs = rmap[old[j].file]] ELSE old[j]]

\* versions after the loop over the sorted old log (cvsps.py:473-478)
RECURSIVE OldVersions(_, _)
OldVersions(old, versions) ==
    IF old = <<>> THEN versions
    ELSE OldVersions(Tail(old),
                     Put(versions, <<Head(old).rcs, ButLast(Head(old).revision)>>,
                         Head(old).revision))

\* rcsmap (cvsps.py:465): dict file -> rcs of the new entries, in log order
RECURSIVE RcsMapOf(_, _)
RcsMapOf(lg, m) ==
    IF lg = <<>> THEN m
    ELSE RcsMapOf(Tail(lg), Put(m, Head(lg).file, Head(lg).rcs))

\* The new log after the sort and the parent pass (cvsps.py:470-486)
FindParents(old, lg, rmap) ==
    LET sorted == PySort("rcs", {}, lg).s
        renewed == RenewRcs(PySort("rcs", {}, old).s, rmap)
    IN  ParentsFrom(sorted, OldVersions(renewed, EmptyDict), <<>>)

-----------------------------------------------------------------------------
(* createlog: the lines of the cvs subprocess.  A line is what the         *)
(* regular expressions of cvsps.py:144-162 see in it: the pattern it       *)
(* matches (kind), the groups the code reads, and its text, which is what  *)
(* the code appends to a comment.  Paths and revision strings are          *)
(* sequences of characters.                                                *)

\* The string of a sequence of characters
RECURSIVE Str(_)
Str(chars) == IF chars = <<>> THEN "" ELSE Head(chars) \o Str(Tail(chars))

Line(kind, text) ==
    [kind |-> kind, text |-> text, chars |-> <<>>, name |-> "",
     date |-> <<0, 0>>, author |-> "", dead |-> FALSE, commitid |-> None,
     mergepoint |-> <<>>]

\* readline() at the end of the output
Eof == Line("eof", "")

\* "RCS file: PATH"
RcsLine(path) ==
    [Line("rcs", "RCS file: " \o Str(path)) EXCEPT !.chars = path]

\* "Working file: PATH"
WorkingLine(path) ==
    [Line("working", "Working file: " \o Str(path)) EXCEPT !.chars = path]

SymbolicLine == Line("symbolic", "symbolic names:")

\* "\tNAME: REV"
SymLine(name, rev) ==
    [Line("sym", "\t" \o name \o ": " \o Str(rev))
        EXCEPT !.name = name, !.chars = rev]

Sep31 == Line("sep31", "----------------------------")

Sep32 ==
    Line("sep32", "======================================="
                      \o "======================================")

\* "revision REV"
RevisionLine(rev) ==
    [Line("revision", "revision " \o Str(rev)) EXCEPT !.chars = rev]

\* The date of the model as rlog prints it
DateText(date) ==
    CASE date[1] = 0 -> "1970/01/01 00:00:00"
      [] date[1] = 1 -> "1970/01/01 00:00:01"
      [] date[1] = 2 -> "1970/01/01 00:00:02"
      [] date[1] = 3 -> "1970/01/01 00:00:03"
      [] OTHER -> "1970/01/01 00:00:04"

\* "date: D;  author: A;  state: S;[  commitid: C;][  mergepoint: REV;]"
\* with the date parsedate returns for D
DateLine(date, author, dead, commitid, mergepoint) ==
    [Line("date",
          "date: " \o DateText(date) \o ";  author: " \o author
              \o ";  state: " \o (IF dead THEN "dead" ELSE "Exp") \o ";"
              \o (IF commitid = None THEN ""
                  ELSE "  commitid: " \o commitid \o ";")
              \o (IF mergepoint = <<>> THEN ""
                  ELSE "  mergepoint: " \o Str(mergepoint) \o ";"))
        EXCEPT !.date = date, !.author = author, !.dead = dead,
               !.commitid = commitid, !.mergepoint = mergepoint]

\* "branches: LIST;" where LIST is group 1 of re_70
BranchesLine(list) ==
    [Line("branches", "branches: " \o Str(list) \o ";") EXCEPT !.chars = list]

\* A line no pattern matches
TextLine(text) == Line("text", text)

\* "cvs [rlog aborted]: MSG", "cvs rlog: MSG" and "Cannot access ...CVSROOT"
AbortedLine == [Line("aborted", "cvs [rlog aborted]: x") EXCEPT !.name = "x"]
CvsMsgLine == [Line("cvsmsg", "cvs rlog: x") EXCEPT !.name = "x"]
NoAccessLine == Line("noaccess", "Cannot access /cvs/CVSROOT")

\* The patterns (cvsps.py:144-160), matched against a line without its
\* newline.  re_02 ends in \n$, and the code strips the newline before it
\* matches (cvsps.py:253-254), so it matches no line.
re_00(line) == line.kind = "rcs"
re_01(line) == line.kind = "aborted"
re_02(line) == FALSE
re_03(line) == line.kind = "noaccess"
re_10(line) == line.kind = "working"
re_20(line) == line.kind = "symbolic"
re_30(line) == line.kind = "sym"
re_31(line) == line.kind = "sep31"
re_32(line) == line.kind = "sep32"
re_50(line) == line.kind = "revision"
re_60(line) == line.kind = "date"
re_70(line) == line.kind = "branches"

\* s.startswith(prefix)
StartsWith(s, prefix) ==
    Len(s) >= Len(prefix) /\ SubSeq(s, 1, Len(prefix)) = prefix

\* sep.join(pieces)
RECURSIVE JoinChars(_, _)
JoinChars(pieces, sep) ==
    IF pieces = <<>> THEN <<>>
    ELSE IF Len(pieces) = 1 THEN pieces[1]
    ELSE pieces[1] \o <<sep>> \o JoinChars(Tail(pieces), sep)

\* s.strip() of blanks
RECURSIVE Strip(_)
Strip(s) ==
    IF s = <<>> THEN s
    ELSE IF Head(s) = " " THEN Strip(Tail(s))
    ELSE IF s[Len(s)] = " " THEN Strip(ButLast(s))
    ELSE s

\* rcs_path (cvsps.py:100-113): the path without the empty and the Attic
\* components of its directory part
rcs_path(path) ==
    LET comps == Split(path, "/")
        dname == ButLast(comps)
        Kept(c) == c # <<>> /\ c # <<"A", "t", "t", "i", "c">>
    IN  JoinChars(Append(SelectSeq(dname, Kept), comps[Len(comps)]), "/")

\* build_prefix(root, directory) (cvsps.py:115-127) for the root '' and the
\* directory 'r' createlog is called with
Prefix == <<"r", "/">>

\* The mergepoint of state 6 (cvsps.py:371-380) for group 10 of the date
\* line: the branch, or "AssertionError"
MergepointOf(bm, mp) ==
    LET myrev == Split(mp, ".")
        magic == JoinChars(ButLast2(myrev)
                               \o <<<<"0">>, myrev[Len(myrev) - 1]>>, ".")
        found == {b \in DOMAIN bm : bm[b] = magic}
    IN  IF Len(myrev) = 2 THEN "HEAD"
        ELSE IF Cardinality(found) = 1 THEN CHOOSE b \in found : TRUE
        ELSE "AssertionError"

\* os.path.normpath of a path without "..": the empty and the "."
\* components go
normpath(path) ==
    LET comps == Split(path, "/")
        Kept(c) == c # <<>> /\ c # <<".">>
        kept == JoinChars(SelectSeq(comps, Kept), "/")
    IN  IF path # <<>> /\ Head(path) = "/" THEN <<"/">> \o kept ELSE kept

\* The value of e before state 5 has made a logentry
NoEntry ==
    [Scaffold("", "", <<"0">>, <<0, 0>>, "", FALSE, None, None)
        EXCEPT !.revision = <<>>]

\* What an iteration of the loop starts from
Cur ==
    [state |-> state, tags |-> tags, branchmap |-> branchmap, rcs |-> rcs,
     filename |-> filename, e |-> e, store |-> store, err |-> ""]

Raise(exception) == [Cur EXCEPT !.err = exception]

\* State 0 (cvsps.py:257-279)
State0(line) ==
    IF re_00(line)
    THEN LET found == [Cur EXCEPT !.rcs = Str(line.chars), !.tags = EmptyDict]
             name == normpath(ButLast2(line.chars))
         IN  IF rlog
             THEN IF StartsWith(name, Prefix)
                  THEN [found EXCEPT
                           !.filename = Str(rcs_path(SubSeq(name, Len(Prefix) + 1,
                                                            Len(name)))),
                           !.state = 2]
                  ELSE [found EXCEPT !.filename = Str(name)]
             ELSE [found EXCEPT !.state = 1]
    ELSE IF re_01(line) \/ re_02(line) \/ re_03(line) THEN Raise("logerror")
    ELSE Cur

\* State 1 (cvsps.py:281-286)
State1(line) ==
    IF re_10(line)
    THEN [Cur EXCEPT !.filename = Str(normpath(line.chars)), !.state = 2]
    ELSE Raise("AssertionError")

\* State 2 (cvsps.py:288-292)
State2(line) ==
    IF re_20(line) THEN [Cur EXCEPT !.branchmap = EmptyDict, !.state = 3]
    ELSE Cur

\* State 3 leaving for state 4 at the first line that is no symbolic name
State3_then_4(line) ==
    IF re_30(line)
    THEN IF parse_revision(line.chars) = ValueError THEN Raise("ValueError")
         ELSE [Cur EXCEPT !.tags = TagsPut(tags, line.name, line.chars),
                          !.branchmap = Put(branchmap, line.name, line.chars)]
    ELSE [Cur EXCEPT !.state = 4]

\* State 3 (cvsps.py:294-313)
State3(line) ==
    IF re_30(line)
    THEN IF parse_revision(line.chars) = ValueError THEN Raise("ValueError")
         ELSE [Cur EXCEPT !.tags = TagsPut(tags, line.name, line.chars),
                          !.branchmap = Put(branchmap, line.name, line.chars)]
    ELSE IF re_31(line) THEN [Cur EXCEPT !.state = 5]
    ELSE IF re_32(line) THEN [Cur EXCEPT !.state = 0]
    ELSE Cur

\* State 4 (cvsps.py:315-321)
State4(line) ==
    IF re_31(line) THEN [Cur EXCEPT !.state = 5]
    ELSE IF re_32(line) THEN Raise("AssertionError")
    ELSE Cur

\* State 5 (cvsps.py:323-338)
State5(line) ==
    IF ~re_50(line) THEN Raise("AssertionError")
    ELSE IF parse_revision(line.chars) = ValueError THEN Raise("ValueError")
    ELSE [Cur EXCEPT
             !.e = Scaffold(rcs, filename, line.chars, <<0, 0>>, "", FALSE,
                            None, None),
             !.state = 6]

\* State 6 (cvsps.py:340-383)
State6(line) ==
    LET mp == IF line.mergepoint = <<>> THEN None
              ELSE MergepointOf(branchmap, line.mergepoint)
    IN  IF ~re_60(line) THEN Raise("AssertionError")
        ELSE IF mp = "AssertionError" THEN Raise("AssertionError")
        ELSE [Cur EXCEPT
                 !.e = [e EXCEPT !.date = line.date, !.author = line.author,
                                 !.dead = line.dead,
                                 !.commitid = line.commitid,
                                 !.mergepoint = mp, !.comment = <<>>],
                 !.state = 7]

\* e.comment.append(line)
CommentAppend(line) ==
    [Cur EXCEPT !.e = [e EXCEPT !.comment = Append(e.comment, line.text)]]

\* State 7 (cvsps.py:385-401); pk is peek
State7(line, pk) ==
    IF re_70(line)
    THEN LET pieces == Split(line.chars, ";")
             revs == [j \in DOMAIN pieces |-> parse_revision(Strip(pieces[j]))]
         IN  IF ValueError \in Range(revs) THEN Raise("ValueError")
             ELSE [Cur EXCEPT !.e = [e EXCEPT !.branches = revs], !.state = 8]
    ELSE IF re_31(line) /\ re_50(pk) THEN [Cur EXCEPT !.state = 5, !.store = TRUE]
    ELSE IF re_32(line) THEN [Cur EXCEPT !.state = 0, !.store = TRUE]
    ELSE CommentAppend(line)

\* State 8 with every '----' line taken as the end of the entry
State8_every_separator(line, pk) ==
    IF re_31(line) \/ re_32(line)
    THEN [Cur EXCEPT !.state = IF re_31(line) THEN 5 ELSE 0, !.store = TRUE]
    ELSE CommentAppend(line)

\* State 8 (cvsps.py:403-418)
State8(line, pk) ==
    IF re_31(line)
    THEN IF re_50(pk) THEN [Cur EXCEPT !.state = 5, !.store = TRUE]
         ELSE CommentAppend(line)
    ELSE IF re_32(line) THEN [Cur EXCEPT !.state = 0, !.store = TRUE]
    ELSE CommentAppend(line)

\* The state machine on a line (cvsps.py:257-418)
StateStep(line, pk) ==
    CASE state = 0 -> State0(line)
      [] state = 1 -> State1(line)
      [] state = 2 -> State2(line)
      [] state = 3 -> State3(line)
      [] state = 4 -> State4(line)
      [] state = 5 -> State5(line)
      [] state = 6 -> State6(line)
      [] state = 7 -> State7(line, pk)
      [] state = 8 -> State8(line, pk)

\* The line after the nread lines already read: readline() (cvsps.py:247,
\* 252)
Readline == IF nread < Len(input) THEN input[nread + 1] ELSE Eof

\* update_log with no rescue of a cache that cannot be read
update_log_strict(mode, canread) == mode \in {"write", "update"}

\* update_log (cvsps.py:188, 209-216): the mode asks for it, or the cache
\* was to be read and could not
update_log(mode, canread) ==
    \/ mode \in {"write", "update"}
    \/ (mode \in {"read", "update"} /\ ~canread)

\* The cache is read and the subprocess started (cvsps.py:184-247)
Start ==
    /\ pc = "start"
    /\ LET loaded == cache \in {"read", "update"} /\ readable
       IN  /\ oldlog' = IF loaded THEN cachefile ELSE <<>>
           /\ IF ~update_log(cache, readable)
              THEN /\ pc' = "done"
                   /\ log' = oldlog'
                   /\ UNCHANGED <<launched, peek, nread>>
              ELSE /\ pc' = "read"
                   /\ log' = <<>>
                   /\ launched' = TRUE
                   /\ peek' = Readline
                   /\ nread' = IF nread < Len(input) THEN nread + 1 ELSE nread
    /\ UNCHANGED <<err, rlog, cache, readable, cachefile, input, written,
                   state, tags, branchmap, rcsmap, rcs, filename, e, store>>
    /\ UNCHANGED <<csvars, clivars>>

\* An iteration of the loop over the lines (cvsps.py:248-468)
ReadLine ==
    /\ pc = "read"
    /\ peek # Eof
    /\ \E r \in {StateStep(peek, Readline)} :
          /\ peek' = Readline
          /\ nread' = IF nread < Len(input) THEN nread + 1 ELSE nread
          /\ state' = r.state
          /\ tags' = r.tags
          /\ branchmap' = r.branchmap
          /\ rcs' = r.rcs
          /\ filename' = r.filename
          /\ store' = FALSE
          /\ err' = r.err
          /\ pc' = IF r.err # "" THEN "error" ELSE "read"
          /\ IF r.store
             THEN \E stored \in {StoreEntry(r.tags, r.branchmap, r.e)} :
                     /\ e' = stored
                     /\ log' = Append(log, stored)
                     /\ rcsmap' = Put(rcsmap, stored.file, stored.rcs)
             ELSE /\ e' = r.e
                  /\ UNCHANGED <<log, rcsmap>>
    /\ UNCHANGED <<rlog, cache, readable, cachefile, input, launched, written,
                   oldlog>>
    /\ UNCHANGED <<csvars, clivars>>

\* After the last line: the sort, the parent pass and the cache
\* (cvsps.py:250-251, 470-510)
Finish ==
    /\ pc = "read"
    /\ peek = Eof
    /\ \E new \in {FindParents(oldlog, log, rcsmap)},
          old \in {RenewRcs(oldlog, rcsmap)} :
          \E bydate \in {PySort("date", {}, new).s} :
             /\ oldlog' = old
             /\ IF cache = None
                THEN /\ log' = new
                     /\ pc' = "done"
                     /\ UNCHANGED <<written, err>>
                ELSE IF new = <<>>
                THEN /\ log' = old
                     /\ pc' = "done"
                     /\ UNCHANGED <<written, err>>
                ELSE IF /\ old # <<>>
                        /\ ~PairLt(old[Len(old)].date, bydate[1].date)
                THEN /\ log' = bydate
                     /\ pc' = "error"
                     /\ err' = "logerror"
                     /\ UNCHANGED written
                ELSE /\ log' = old \o bydate
                     /\ pc' = "done"
                     /\ written' = TRUE
                     /\ UNCHANGED err
    /\ UNCHANGED <<rlog, cache, readable, cachefile, input, nread, launched,
                   state, peek, tags, branchmap, rcsmap, rcs, filename, e,
                   store>>
    /\ UNCHANGED <<csvars, clivars>>

-----------------------------------------------------------------------------
(* createchangeset (cvsps.py:640-860)                                      *)

\* mergefrom.search(comment) and mergeto.search(comment) with the default
\* patterns (cvsps.py:745-753): the branch captured, "" when no match
MergeFromMatch(comment) ==
    CASE comment = "m {{mergefrombranch BR}}" -> "BR"
      [] comment = "m {{mergefrombranch HEAD}}" -> "HEAD"
      [] comment = "m {{mergefrombranch X}}" -> "X"
      [] OTHER -> ""

MergeToMatch(comment) ==
    CASE comment = "m {{mergetobranch BR}}" -> "BR"
      [] comment = "m {{mergetobranch HEAD}}" -> "HEAD"
      [] OTHER -> ""

\* if m == 'HEAD': m = None (cvsps.py:802-803, 818-819)
HeadToNone(m) == IF m = "HEAD" THEN None ELSE m

\* ui.warn raises AttributeError when ui is the UI object of main, whose
\* class defines write, status, note and debug only (cvsps.py:1061-1082)
WarnRaises == phase # "lib"

\* The mindate loop and the sort of the log (cvsps.py:645-665)
SortLog ==
    /\ pc = "sort"
    /\ log' = PySort("log", MinDateOf(log), log).s
    /\ pc' = IF log = <<>> THEN "sortfiles" ELSE "group"
    /\ UNCHANGED <<fuzz, heap, changesets, cur, k, globaltags, branches, i, n,
                   odd, warnings, err>>
    /\ UNCHANGED <<logvars, clivars>>

\* One iteration of the grouping loop (cvsps.py:669-676)
GroupStep ==
    /\ pc = "group"
    /\ k < Len(log)
    /\ LET ent == log[k + 1]
       IN  IF cur # 0 /\ can_cover(heap[cur], ent, fuzz)
           THEN /\ heap' = [heap EXCEPT ![cur] = Add(@, ent)]
                /\ UNCHANGED <<changesets, cur>>
           ELSE /\ heap' = Append(heap, from_logentry(ent))
                /\ changesets' = Append(changesets, Len(heap) + 1)
                /\ cur' = Len(heap) + 1
    /\ k' = k + 1
    /\ pc' = IF k + 1 = Len(log) THEN "sortfiles" ELSE "group"
    /\ UNCHANGED <<fuzz, log, globaltags, branches, i, n, odd, warnings, err>>
    /\ UNCHANGED <<logvars, clivars>>

\* Sort files in each changeset (cvsps.py:678-680)
SortFiles ==
    /\ pc = "sortfiles"
    /\ heap' = [c \in DOMAIN heap |->
                   [heap[c] EXCEPT !.entries = PySort("file", {}, @).s]]
    /\ pc' = "sortcs"
    /\ UNCHANGED <<fuzz, log, changesets, cur, k, globaltags, branches, i, n,
                   odd, warnings, err>>
    /\ UNCHANGED <<logvars, clivars>>

\* Sort changesets by date (cvsps.py:682-723)
SortChangesets ==
    /\ pc = "sortcs"
    /\ LET r == PySort("cs", heap, changesets)
       IN  /\ changesets' = r.s
           /\ odd' = {p \in r.cmps : IsOdd(heap[p[1]], heap[p[2]])}
    /\ pc' = "tags"
    /\ UNCHANGED <<fuzz, log, heap, cur, k, globaltags, branches, i, n,
                   warnings, err>>
    /\ UNCHANGED <<logvars, clivars>>

\* The tags of the entries of a changeset (cvsps.py:735-737)
EntryTags(c) == UNION {Range(c.entries[j].tags) : j \in DOMAIN c.entries}

\* globaltags keeping the first changeset of the list to have the tag, as
\* if the first loop never overwrote an entry of the dict
FirstGlobalTagsOf(hp, css) ==
    LET all == UNION {EntryTags(hp[css[j]]) : j \in DOMAIN css}
        first(t) == CHOOSE j \in DOMAIN css :
                       /\ t \in EntryTags(hp[css[j]])
                       /\ \A j2 \in DOMAIN css :
                             t \in EntryTags(hp[css[j2]]) => j <= j2
    IN  [t \in all |-> css[first(t)]]

\* globaltags after the first loop (cvsps.py:727-732): the last changeset
\* of the list to have the tag
GlobalTagsOf(hp, css) ==
    LET all == UNION {EntryTags(hp[css[j]]) : j \in DOMAIN css}
        last(t) == CHOOSE j \in DOMAIN css :
                      /\ t \in EntryTags(hp[css[j]])
                      /\ \A j2 \in DOMAIN css :
                            t \in EntryTags(hp[css[j2]]) => j2 <= j
    IN  [t \in all |-> css[last(t)]]

\* sorted(S) of a set of strings
RECURSIVE SetToSeq(_)
SetToSeq(S) ==
    IF S = {} THEN <<>>
    ELSE LET x == CHOOSE x \in S : TRUE IN <<x>> \o SetToSeq(S \ {x})

SortedStrings(S) == PySort("str", {}, SetToSeq(S)).s

\* Collect tags (cvsps.py:725-739)
CollectTags ==
    /\ pc = "tags"
    /\ LET gt == GlobalTagsOf(heap, changesets)
       IN  /\ globaltags' = gt
           /\ heap' = [c \in DOMAIN heap |->
                          [heap[c] EXCEPT !.tags =
                              SortedStrings({t \in EntryTags(heap[c]) : gt[t] = c})]]
    /\ n' = Len(changesets)
    /\ i' = 0
    /\ branches' = EmptyDict
    /\ pc' = IF changesets = <<>> THEN "purge" ELSE "parents"
    /\ UNCHANGED <<fuzz, log, changesets, cur, k, odd, warnings, err>>
    /\ UNCHANGED <<logvars, clivars>>

\* The scan for the parent of the first changeset on a branch
\* (cvsps.py:770-775), from candidate cand with p found so far (-1: None):
\* the index found, -1 for None, -2 when "in" is applied to the
\* branchpoints None of a merge changeset (TypeError)
RECURSIVE ScanCandidates(_, _, _, _, _, _)
ScanCandidates(hp, css, branch, upto, cand, p) ==
    IF cand >= upto THEN p
    ELSE LET bps == hp[css[cand + 1]].branchpoints
         IN  IF bps = NoBranchpoints THEN -2
             ELSE IF branch \notin bps
                  THEN IF p # -1 THEN p
                       ELSE ScanCandidates(hp, css, branch, upto, cand + 1, p)
                  ELSE ScanCandidates(hp, css, branch, upto, cand + 1, cand)

\* The walk from a synthetic parent to its first non-synthetic ancestor
\* (cvsps.py:780-788): its reference, 0 for None, -1 when the assertion
\* fails
RECURSIVE SkipSynthetic(_, _)
SkipSynthetic(hp, p) ==
    IF ~hp[p].synthetic THEN p
    ELSE IF Len(hp[p].parents) > 1 THEN -1
    ELSE IF hp[p].parents # <<>> THEN SkipSynthetic(hp, hp[p].parents[1])
    ELSE 0

\* The mergepoint step appending no parent for the mergepoint HEAD
MergepointParentsButHead(hp, css, br, mp) ==
    IF mp = None THEN <<>> ELSE <<css[br[mp] + 1]>>

\* The parents the mergepoint step appends (cvsps.py:793-796); mp is the
\* mergepoint with HEAD turned to None
MergepointParents(hp, css, br, mp) == <<css[br[mp] + 1]>>

\* The parents the mergefrom step appends (cvsps.py:798-811); m is the
\* captured branch with HEAD turned to None, known to be in branches
MergeFromParents(hp, css, br, c, m) ==
    IF hp[c].branch # m /\ ~hp[css[br[m] + 1]].synthetic
    THEN <<css[br[m] + 1]>> ELSE <<>>

\* One iteration of the parent loop (cvsps.py:758-834)
ParentStep ==
    /\ pc = "parents"
    /\ i < n
    /\ LET c == changesets[i + 1]
           C == heap[c]
           pidx == IF C.branch \in DOMAIN branches THEN branches[C.branch]
                   ELSE ScanCandidates(heap, changesets, C.branch, i, 0, -1)
           p == IF pidx < 0 THEN 0 ELSE SkipSynthetic(heap, changesets[pidx + 1])
           parents1 == IF p > 0 THEN Append(C.parents, p) ELSE C.parents
           hasmp == C.mergepoint # None
           mp == HeadToNone(C.mergepoint)
           parents2 == IF hasmp /\ mp \in DOMAIN branches
                       THEN parents1 \o MergepointParents(heap, changesets, branches, mp)
                       ELSE parents1
           mf == HeadToNone(MergeFromMatch(C.comment))
           parents3 == IF mf # "" /\ mf \in DOMAIN branches
                       THEN parents2 \o MergeFromParents(heap, changesets, branches, c, mf)
                       ELSE parents2
           mt == HeadToNone(MergeToMatch(C.comment))
           C1 == [C EXCEPT !.parents = parents3, !.mergepoint = mp]
           heap1 == [heap EXCEPT ![c] = C1]
       IN  IF pidx = -2 \/ p = -1 \/ (hasmp /\ mp \notin DOMAIN branches)
               \/ (WarnRaises /\ mf # "" /\ mf \notin DOMAIN branches)
           THEN /\ pc' = "error"
                /\ err' = IF pidx = -2 THEN "TypeError"
                          ELSE IF p = -1 THEN "AssertionError"
                          ELSE IF hasmp /\ mp \notin DOMAIN branches
                               THEN "KeyError" ELSE "AttributeError"
                /\ UNCHANGED <<heap, changesets, branches, i, n, warnings>>
           ELSE /\ warnings' = IF mf # "" /\ mf \notin DOMAIN branches
                               THEN Append(warnings, [kind |-> "non-existent branch",
                                                       branch |-> mf, l |-> c, r |-> 0])
                               ELSE warnings
                /\ IF mt # "" /\ mt \in DOMAIN branches /\ C.branch # mt
                   THEN LET to == changesets[branches[mt] + 1]
                            cc == from_merge(C1, heap1[to], c, to)
                        IN  /\ heap' = Append(heap1, cc)
                            /\ changesets' = InsertAt(changesets, i + 1, Len(heap) + 1)
                            /\ branches' = Put(branches, mt, i + 1)
                            /\ n' = n + 1
                            /\ i' = i + 2
                            /\ pc' = IF i + 2 < n + 1 THEN "parents" ELSE "purge"
                   ELSE /\ heap' = heap1
                        /\ branches' = Put(branches, C.branch, i)
                        /\ i' = i + 1
                        /\ pc' = IF i + 1 < n THEN "parents" ELSE "purge"
                        /\ UNCHANGED <<changesets, n>>
                /\ err' = err
    /\ UNCHANGED <<fuzz, log, cur, k, globaltags, odd>>
    /\ UNCHANGED <<logvars, clivars>>

\* Drop synthetic changesets (cvsps.py:836-843)
Purged(hp, css) == SelectSeq(css, LAMBDA c : ~hp[c].synthetic)

Purge ==
    /\ pc = "purge"
    /\ changesets' = Purged(heap, changesets)
    /\ pc' = "number"
    /\ UNCHANGED <<fuzz, log, heap, cur, k, globaltags, branches, i, n, odd,
                   warnings, err>>
    /\ UNCHANGED <<logvars, clivars>>

\* Numbering by the order the changesets were created in, not by their
\* place in the list
NumberedAsCreated(hp, css) ==
    [c \in DOMAIN hp |->
        IF c \in Range(css) THEN [hp[c] EXCEPT !.id = c] ELSE hp[c]]

\* Number changesets (cvsps.py:845-848): the heap with the ids set
Numbered(hp, css) ==
    [c \in DOMAIN hp |->
        IF c \in Range(css)
        THEN [hp[c] EXCEPT !.id = CHOOSE j \in DOMAIN css : css[j] = c]
        ELSE hp[c]]

Perms(S) == {f \in [1..Cardinality(S) -> S] : Range(f) = S}

\* Number changesets, warn about the odd pairs and return
\* (cvsps.py:845-860); a set is iterated in no fixed order
Number ==
    /\ pc = "number"
    /\ LET hp == Numbered(heap, changesets)
           both == {p \in odd : hp[p[1]].id # 0 /\ hp[p[2]].id # 0}
       IN  /\ heap' = hp
           /\ IF WarnRaises /\ both # {}
              THEN /\ pc' = "error"
                   /\ err' = "AttributeError"
                   /\ UNCHANGED warnings
              ELSE /\ \E order \in Perms(both) :
                         warnings' = warnings \o
                             [j \in DOMAIN order |->
                                 [kind |-> "both before and after",
                                  branch |-> "",
                                  l |-> order[j][1], r |-> order[j][2]]]
                   /\ pc' = "done"
                   /\ UNCHANGED err
    /\ UNCHANGED <<fuzz, log, changesets, cur, k, globaltags, branches, i, n,
                   odd>>
    /\ UNCHANGED <<logvars, clivars>>

-----------------------------------------------------------------------------
(* The logs createchangeset is run on: what createlog returns for the      *)
(* revisions of a few files.  A revision is described by what its rlog     *)
(* lines say; its tags, branch, branchpoints, synthetic flag and parent    *)
(* are computed as createlog computes them.                                *)

MaxLog == 3      \* the most entries in a log
MaxDate == 2     \* dates are (0..MaxDate, 0)
Fuzz == 2        \* the fuzz createchangeset is called with

R11 == <<"1", ".", "1">>
R12 == <<"1", ".", "2">>
R1121 == <<"1", ".", "1", ".", "2", ".", "1">>
R1102 == <<"1", ".", "1", ".", "0", ".", "2">>

RcsName(file) ==
    CASE file = "a" -> "r/a,v" [] file = "b" -> "r/b,v" [] file = "c" -> "r/c,v"

SynComment(file) ==
    CASE file = "a" -> "file a was added on branch BR"
      [] file = "b" -> "file b was added on branch BR"
      [] file = "c" -> "file c was added on branch BR"

\* The symbolic names of a file: none, or a branch BR (1.1.0.2) and a tag
\* T, which is on 1.1 in file a and on 1.1.2.1 in the other files
NoSyms(file) == <<>>
BranchSyms(file) ==
    << <<"BR", R1102>>, <<"T", IF file = "a" THEN R11 ELSE R1121>> >>

\* The entry createlog stores for revision slot[2] of file slot[1] whose
\* rlog record says a (date, author, state, commitid, mergepoint, comment)
LogEntry(syms, slot, a) ==
    StoreEntry(TagsOf(syms, EmptyDict), BranchmapOf(syms, EmptyDict),
               [Scaffold(RcsName(slot[1]), slot[1], slot[2], <<a.t, a.tz>>, a.author,
                         a.dead, a.commitid, a.mergepoint)
                   EXCEPT !.comment = <<IF a.comment = "syn" THEN SynComment(slot[1])
                                        ELSE a.comment>>])

\* What createlog returns (cache mode write) for a set of entries: the
\* parent pass, then the sort by date (cvsps.py:470-498)
CreatelogResult(entries) ==
    LET lg == SetToSeq(entries)
    IN  PySort("date", {}, FindParents(<<>>, lg, RcsMapOf(lg, EmptyDict))).s

\* Grouping: four revisions of three files without symbolic names, by
\* date, commitid and comment
GroupSlots == {<<"a", R11>>, <<"a", R12>>, <<"b", R11>>, <<"c", R11>>}

GroupAttrs ==
    [t : 0..MaxDate, tz : {0}, commitid : {None, "c1"}, comment : {"m", "n"},
     author : {"u"}, dead : {FALSE}, mergepoint : {None}]

\* Time zones: the first revisions of two files, by date and time zone
ZoneSlots == {<<"a", R11>>, <<"b", R11>>}

ZoneAttrs ==
    [t : 0..MaxDate, tz : {0, 1, 2}, commitid : {None}, comment : {"m"},
     author : {"u"}, dead : {FALSE}, mergepoint : {None}]

\* Merging: four revisions of two files with a branch BR, by date and by
\* what they say about merges
MergeSlots == {<<"a", R11>>, <<"a", R1121>>, <<"a", R12>>, <<"b", R1121>>}

Plain == [commitid |-> None, author |-> "u", dead |-> FALSE,
          mergepoint |-> None, comment |-> "m"]

Flavours ==
    {Plain,
     [Plain EXCEPT !.dead = TRUE, !.comment = "syn"],
     [Plain EXCEPT !.mergepoint = "HEAD"],
     [Plain EXCEPT !.mergepoint = "BR"],
     [Plain EXCEPT !.comment = "m {{mergefrombranch BR}}"],
     [Plain EXCEPT !.comment = "m {{mergefrombranch X}}"],
     [Plain EXCEPT !.comment = "m {{mergetobranch BR}}"],
     [Plain EXCEPT !.comment = "m {{mergetobranch HEAD}}"],
     [Plain EXCEPT !.mergepoint = "BR", !.comment = "m {{mergefrombranch BR}}"]}

MergeAttrs ==
    {[t |-> t, tz |-> 0, commitid |-> f.commitid, author |-> f.author, dead |-> f.dead,
      mergepoint |-> f.mergepoint, comment |-> f.comment] :
        t \in 0..MaxDate, f \in Flavours}

\* Files added on a branch: the first revisions of two files and a
\* revision on the branch, dead with the comment cvs writes for a file
\* added on a branch or not, with the commitid cvs 1.12 writes or without
AddedSlots == {<<"a", R11>>, <<"b", R11>>, <<"a", R1121>>}

AddedAttrs ==
    {[t |-> t, tz |-> 0, commitid |-> c, author |-> "u", dead |-> f.dead,
      mergepoint |-> None, comment |-> f.comment] :
        t \in 0..1, c \in {None, "c1"},
        f \in {Plain, [Plain EXCEPT !.dead = TRUE, !.comment = "syn"]}}

SlotSets(slots) == {S \in SUBSET slots : Cardinality(S) <= MaxLog}

\* In the merge family the revisions of a log have different dates
DistinctDates(f) == \A x, y \in DOMAIN f : x # y => f[x].t # f[y].t

\* log is what createlog returns for some choice of at most MaxLog slots
\* of a family and of attributes for each
InputLog(lg) ==
    \/ \E S \in SlotSets(GroupSlots) : \E f \in [S -> GroupAttrs] :
          lg = CreatelogResult({LogEntry(NoSyms(sl[1]), sl, f[sl]) : sl \in S})
    \/ \E S \in SlotSets(ZoneSlots) : \E f \in [S -> ZoneAttrs] :
          lg = CreatelogResult({LogEntry(NoSyms(sl[1]), sl, f[sl]) : sl \in S})
    \/ \E S \in SlotSets(MergeSlots) : \E f \in [S -> MergeAttrs] :
          /\ DistinctDates(f)
          /\ lg = CreatelogResult({LogEntry(BranchSyms(sl[1]), sl, f[sl]) : sl \in S})
    \/ \E S \in SlotSets(AddedSlots) : \E f \in [S -> AddedAttrs] :
          lg = CreatelogResult({LogEntry(BranchSyms(sl[1]), sl, f[sl]) : sl \in S})

\* The options of debugcvsps when none is given (cvsps.py:986-1052)
NoOpts ==
    [revisions |-> <<>>, branches |-> {}, ancestors |-> FALSE,
     parents |-> FALSE, new_cache |-> FALSE, update_cache |-> FALSE]

\* The function runs on its own, not under debugcvsps
CliIdle ==
    /\ phase = "lib"
    /\ opts = NoOpts
    /\ off = 0
    /\ taken = 0
    /\ dbranches = EmptyDict
    /\ ancestors = EmptyDict
    /\ stdout = <<>>
    /\ status = -1

\* createlog has returned log (cache mode write)
LogIdle ==
    /\ rlog = TRUE
    /\ cache = "write"
    /\ readable = FALSE
    /\ cachefile = <<>>
    /\ input = <<>>
    /\ nread = 0
    /\ launched = TRUE
    /\ written = TRUE
    /\ state = 0
    /\ peek = Eof
    /\ tags = EmptyDict
    /\ branchmap = EmptyDict
    /\ rcsmap = EmptyDict
    /\ rcs = ""
    /\ filename = ""
    /\ e = NoEntry
    /\ store = FALSE
    /\ oldlog = <<>>

\* createchangeset is entered (cvsps.py:640-643)
Init ==
    /\ InputLog(log)
    /\ fuzz = Fuzz
    /\ pc = "sort"
    /\ heap = <<>>
    /\ changesets = <<>>
    /\ cur = 0
    /\ k = 0
    /\ globaltags = EmptyDict
    /\ branches = EmptyDict
    /\ i = 0
    /\ n = 0
    /\ odd = {}
    /\ warnings = <<>>
    /\ err = ""
    /\ LogIdle
    /\ CliIdle

Next ==
    \/ SortLog
    \/ GroupStep
    \/ SortFiles
    \/ SortChangesets
    \/ CollectTags
    \/ ParentStep
    \/ Purge
    \/ Number

Spec == Init /\ [][Next]_vars

\* The logs the parent pass is studied on: at most MaxLog of the three
\* revisions of file a of the merge family, with every date order and
\* every flavour, and of a plain revision of file b on the branch
ParentPassSlots == {<<"a", R11>>, <<"a", R1121>>, <<"a", R12>>}

PlainOnBranch == <<"b", R1121>>

\* Three branches: the revision of b on BR, the first revision of a on the
\* trunk and a plain revision of file c on its branch BR2 (1.1.0.4)
R1141 == <<"1", ".", "1", ".", "4", ".", "1">>
R1104 == <<"1", ".", "1", ".", "0", ".", "4">>

PlainOnOther == <<"c", R1141>>

ThreeBranchSlots == {PlainOnBranch, <<"a", R11>>, PlainOnOther}

SymsOf(slot) ==
    IF slot = PlainOnOther THEN << <<"BR2", R1104>> >>
    ELSE BranchSyms(slot[1])

IsPlain(a) == \A field \in DOMAIN Plain : a[field] = Plain[field]

InputMerges(lg) ==
    \/ \E S \in SlotSets(ParentPassSlots \cup {PlainOnBranch}) :
          \E f \in [S -> MergeAttrs] :
              /\ DistinctDates(f)
              /\ PlainOnBranch \in S => IsPlain(f[PlainOnBranch])
              /\ lg = CreatelogResult({LogEntry(SymsOf(sl), sl, f[sl]) :
                                          sl \in S})
    \/ \E f \in [ThreeBranchSlots -> MergeAttrs] :
          /\ DistinctDates(f)
          /\ IsPlain(f[PlainOnBranch])
          /\ IsPlain(f[PlainOnOther])
          /\ lg = CreatelogResult({LogEntry(SymsOf(sl), sl, f[sl]) :
                                      sl \in ThreeBranchSlots})

\* createchangeset is entered with such a log (cvsps.py:640-643)
InitMerge ==
    /\ InputMerges(log)
    /\ fuzz = Fuzz
    /\ pc = "sort"
    /\ heap = <<>>
    /\ changesets = <<>>
    /\ cur = 0
    /\ k = 0
    /\ globaltags = EmptyDict
    /\ branches = EmptyDict
    /\ i = 0
    /\ n = 0
    /\ odd = {}
    /\ warnings = <<>>
    /\ err = ""
    /\ LogIdle
    /\ CliIdle

SpecMerge == InitMerge /\ [][Next]_vars

-----------------------------------------------------------------------------
(* The runs of createlog: what the cvs subprocess writes, the cache file   *)
(* and the parameters rlog and cache.  The output is made of the records   *)
(* of files as cvs rlog prints them, and of records with a line missing,   *)
(* a revision number cvs would not print, or lines out of place.           *)

MaxNew == 2      \* the most revisions in the output of a parent-pass run
MaxComment == 2  \* the most lines in the comment of a revision

R21 == <<"2", ".", "1">>
R111 == <<"1", ".", "1", ".", "1">>
R1 == <<"1">>
RDot == <<"1", ".">>

PathA == <<"r", "/", "a", ",", "v">>
PathB == <<"r", "/", "b", ",", "v">>
PathAtticA == <<"r", "/", "A", "t", "t", "i", "c", "/", "a", ",", "v">>
PathOutside == <<"x", "/", "c", ",", "v">>

SymLines(syms) == [j \in DOMAIN syms |-> SymLine(syms[j][1], syms[j][2])]

PlainDate(t) == DateLine(<<t, 0>>, "u", FALSE, None, <<>>)

\* A revision of a record: the separator, the revision line, the date
\* line and the lines after it
RevBlock(rev, dateline, rest) == <<Sep31, RevisionLine(rev), dateline>> \o rest

\* The record of a file up to its first revision
RecordHead(path, syms) ==
    <<RcsLine(path), TextLine("head: 1.1"), SymbolicLine>> \o SymLines(syms)
        \o <<TextLine("description:")>>

\* The concatenation of a list of lists
RECURSIVE Flatten(_)
Flatten(ss) == IF ss = <<>> THEN <<>> ELSE Head(ss) \o Flatten(Tail(ss))

Seqs(S, len) == UNION {[1..m -> S] : m \in 0..len}

\* Revision numbers: one or two revisions of a file with a branch and a
\* tag, under any number a revision line can carry
RevShapes == {R11, R12, R1121, R1102, R111, R1, RDot}

RevisionTexts ==
    {RecordHead(PathA, BranchSyms("a"))
         \o Flatten([j \in DOMAIN revs |->
                        RevBlock(revs[j], PlainDate(j), <<TextLine("m")>>)])
         \o <<Sep32>> :
       revs \in Seqs(RevShapes, 2) \ {<<>>}}

\* Comments: a revision whose comment has up to MaxComment lines, among
\* them separators, revision lines and lines in the form of a synthetic
\* revision's, with or without a branches line and an end of record
CommentLines ==
    {TextLine("m"), TextLine(SynComment("a")), Sep31, RevisionLine(R12)}

CommentTexts ==
    {RecordHead(PathA, syms)
         \o RevBlock(R11, DateLine(<<1, 0>>, "u", dead, None, <<>>), br \o com)
         \o end :
       syms \in {NoSyms("a"), BranchSyms("a")},
       dead \in BOOLEAN,
       br \in {<<>>, <<BranchesLine(<<" ">> \o R111)>>},
       com \in Seqs(CommentLines, MaxComment),
       end \in {<<>>, <<Sep32>>}}

\* Symbolic names, date lines and branches lines
SymLists ==
    {NoSyms("a"), BranchSyms("a"),
     << <<"BR", R1102>>, <<"BR2", R1102>> >>,
     << <<"T2", R11>>, <<"T", R11>> >>,
     << <<"V", R111>>, <<"X", R1>> >>}

DateLines ==
    {PlainDate(1),
     DateLine(<<1, 0>>, "u", FALSE, "c1", <<>>),
     DateLine(<<1, 0>>, "u", FALSE, None, R11),
     DateLine(<<1, 0>>, "u", FALSE, None, R1121),
     DateLine(<<1, 0>>, "u", TRUE, None, <<>>)}

BranchesLists ==
    {<<>>, <<BranchesLine(<<" ">> \o R111)>>,
     <<BranchesLine(<<" ">> \o <<"1", ".", "1", ".", "2">> \o <<";", " ", " ">>
                        \o R111)>>}

SymbolTexts ==
    {RecordHead(PathA, syms) \o RevBlock(rev, dl, br \o <<TextLine("m")>>)
         \o <<Sep32>> :
       syms \in SymLists, rev \in {R11, R1121}, dl \in DateLines,
       br \in BranchesLists}

\* Files without revisions: the record of a file of which cvs selected no
\* revision, its symbolic names followed by the end of the record, alone
\* or before the record of another file
NoRevisionTexts ==
    {RecordHead(PathA, syms) \o <<Sep32>> \o rest :
       syms \in {NoSyms("a"), BranchSyms("a")},
       rest \in {<<>>,
                 RecordHead(PathB, NoSyms("b"))
                     \o RevBlock(R11, PlainDate(1), <<TextLine("m")>>)
                     \o <<Sep32>>}}

\* Errors: a well-formed record of a file inside or outside the directory,
\* with or without a Working file line, after a line cvs prints when it
\* fails; and the record with any one of its lines missing
BaseRecord(path) ==
    RecordHead(path, BranchSyms("a"))
        \o RevBlock(R12, PlainDate(2), <<TextLine("m")>>)
        \o RevBlock(R11, PlainDate(1), <<TextLine("m")>>)
        \o <<Sep32>>

WithWorking(text) == <<Head(text), WorkingLine(<<"a">>)>> \o Tail(text)

Without(text, j) == SubSeq(text, 1, j - 1) \o SubSeq(text, j + 1, Len(text))

FirstLines ==
    {<<>>, <<TextLine("")>>, <<AbortedLine>>, <<CvsMsgLine>>, <<NoAccessLine>>}

ErrorTexts ==
    {first \o rec : first \in FirstLines,
                    rec \in {BaseRecord(PathA), BaseRecord(PathOutside),
                             WithWorking(BaseRecord(PathA))}}
    \cup {Without(BaseRecord(PathA), j) : j \in DOMAIN BaseRecord(PathA)}
    \cup {BaseRecord(PathA) \o <<AbortedLine>>}

\* The parent pass: at most MaxNew revisions of the files a and b, file a
\* in the directory or in its Attic, and a cache
ParentSlots ==
    {<<"a", R11>>, <<"a", R12>>, <<"a", R21>>, <<"a", R1121>>, <<"b", R11>>}

\* The lists of distinct slots of at most MaxNew revisions, file a first
SlotLists ==
    {sl \in Seqs(ParentSlots, MaxNew) :
        /\ \A x, y \in DOMAIN sl : x # y => sl[x] # sl[y]
        /\ \A x, y \in DOMAIN sl : (x < y /\ sl[y][1] = "a") => sl[x][1] = "a"}

FileBlocks(sl, file, dates) ==
    Flatten([j \in DOMAIN sl |->
                IF sl[j][1] = file
                THEN RevBlock(sl[j][2], PlainDate(dates[j]), <<TextLine("m")>>)
                ELSE <<>>])

FileRecord(sl, file, path, dates) ==
    IF \E j \in DOMAIN sl : sl[j][1] = file
    THEN RecordHead(path, NoSyms(file)) \o FileBlocks(sl, file, dates)
             \o <<Sep32>>
    ELSE <<>>

ParentTexts ==
    {FileRecord(sl, "a", patha, dates) \o FileRecord(sl, "b", PathB, dates) :
       sl \in SlotLists, patha \in {PathA, PathAtticA},
       dates \in [1..MaxNew -> 1..MaxDate]}

OldAttrs(t) ==
    [t |-> t, tz |-> 0, commitid |-> None, author |-> "u", dead |-> FALSE,
     mergepoint |-> None, comment |-> "m"]

\* The revisions of the cache file; 1.2 of file a is of date 1, the others
\* are of date 0
OldSlotSets ==
    {{}, {<<"a", R11>>}, {<<"a", R11>>, <<"a", R12>>},
     {<<"a", R11>>, <<"b", R11>>}}

OldDate(slot) == IF slot[2] = R12 THEN 1 ELSE 0

\* What earlier runs of createlog left in the cache file
OldLogs ==
    {CreatelogResult({LogEntry(NoSyms(sl[1]), sl, OldAttrs(OldDate(sl))) :
                         sl \in S}) :
       S \in OldSlotSets}

CsIdle ==
    /\ fuzz = Fuzz
    /\ heap = <<>>
    /\ changesets = <<>>
    /\ cur = 0
    /\ k = 0
    /\ globaltags = EmptyDict
    /\ branches = EmptyDict
    /\ i = 0
    /\ n = 0
    /\ odd = {}
    /\ warnings = <<>>

\* createlog is entered (cvsps.py:129-141, 237-241)
InitLog ==
    /\ pc = "start"
    /\ err = ""
    /\ log = <<>>
    /\ CsIdle
    /\ CliIdle
    /\ nread = 0
    /\ launched = FALSE
    /\ written = FALSE
    /\ state = 0
    /\ peek = Eof
    /\ tags = EmptyDict
    /\ branchmap = EmptyDict
    /\ rcsmap = EmptyDict
    /\ rcs = ""
    /\ filename = ""
    /\ e = NoEntry
    /\ store = FALSE
    /\ oldlog = <<>>
    /\ cachefile \in OldLogs
    /\ \/ /\ input \in RevisionTexts \cup CommentTexts \cup SymbolTexts
                         \cup NoRevisionTexts
          /\ rlog = TRUE
          /\ cache = "write"
          /\ readable = FALSE
          /\ cachefile = <<>>
       \/ /\ input \in ErrorTexts
          /\ rlog \in BOOLEAN
          /\ cache = "write"
          /\ readable = FALSE
          /\ cachefile = <<>>
       \/ /\ input \in ParentTexts
          /\ rlog = TRUE
          /\ cache = "update"
          /\ readable = TRUE
       \/ /\ input = BaseRecord(PathA)
          /\ rlog = TRUE
          /\ cache \in {None, "read", "write", "update"}
          /\ readable \in BOOLEAN

NextLog ==
    \/ Start
    \/ ReadLine
    \/ Finish

SpecLog == InitLog /\ [][NextLog]_vars

-----------------------------------------------------------------------------
(* debugcvsps and main (cvsps.py:863-963, 965-1089): the program run on    *)
(* one directory.  createlog is called with the cache mode the options    *)
(* give, createchangeset with its result, and the changesets are printed. *)
(* What ui.write writes is kept as records, one for each changeset.       *)

\* cache (cvsps.py:868-873)
CacheOf(o) ==
    IF o.new_cache THEN "write"
    ELSE IF o.update_cache THEN "update" ELSE "read"

\* str(cs.id); the id of a changeset that was never numbered is None
IdStr(id) ==
    CASE id = 0 -> "None" [] id = 1 -> "1" [] id = 2 -> "2" [] id = 3 -> "3"
      [] id = 4 -> "4" [] id = 5 -> "5" [] OTHER -> "6"

\* cs.branch or 'HEAD'
BranchName(b) == IF b = None THEN "HEAD" ELSE b

\* revisions[j] == str(cs.id) or revisions[j] in cs.tags
Matches(marker, cs) == marker = IdStr(cs.id) \/ marker \in Range(cs.tags)

\* min([e.date for e in cs.entries])
MinDate(entries) ==
    CHOOSE d \in {entries[j].date : j \in DOMAIN entries} :
        \A j \in DOMAIN entries : ~PairLt(entries[j].date, d)

\* The Ancestors line (cvsps.py:931-938): the walk from branch b up to the
\* trunk; <<"KeyError">> when a branch is in neither dict
RECURSIVE AncestorsOf(_, _, _, _)
AncestorsOf(b, anc, dbr, depth) ==
    IF b = None \/ depth = 0 THEN <<>>
    ELSE IF b \notin DOMAIN anc THEN <<"KeyError">>
    ELSE IF anc[b][1] \notin DOMAIN dbr THEN <<"KeyError">>
    ELSE LET rest == AncestorsOf(anc[b][1], anc, dbr, depth - 1)
         IN  IF rest = <<"KeyError">> THEN rest
             ELSE << <<BranchName(anc[b][1]), anc[b][2], dbr[anc[b][1]]>> >>
                      \o rest

\* The Members lines (cvsps.py:942-950), the prefix option being ''
MembersOf(entries) ==
    [j \in DOMAIN entries |->
        [file |-> entries[j].file, parent |-> entries[j].parent,
         revision |-> entries[j].revision, dead |-> entries[j].dead]]

\* What is written for changeset cs (cvsps.py:908-951) and the exception
\* that ends it: ValueError before anything is written, TypeError and
\* KeyError after the first lines
Patch(cs, o, anc, dbr) ==
    LET parentids == [j \in DOMAIN cs.parents |-> heap[cs.parents[j]].id]
        head == [kind |-> "patchset", id |-> cs.id, date |-> <<0, 0>>,
                 author |-> cs.author, branch |-> BranchName(cs.branch),
                 tags |-> SubSeq(cs.tags, 1, IF cs.tags = <<>> THEN 0 ELSE 1),
                 branchpoints |-> cs.branchpoints, parents |-> <<>>,
                 ancestors |-> <<>>, comment |-> cs.comment,
                 members |-> <<>>, complete |-> FALSE]
        walk == IF o.ancestors
                THEN AncestorsOf(cs.branch, anc, dbr, Len(changesets))
                ELSE <<>>
    IN  IF cs.entries = <<>> THEN [err |-> "ValueError", out |-> <<>>]
        ELSE LET dated == [head EXCEPT !.date = MinDate(cs.entries)]
             IN  IF o.parents /\ Len(parentids) = 1 /\ parentids[1] = 0
                 THEN [err |-> "TypeError", out |-> <<dated>>]
                 ELSE LET shown == IF o.parents
                                   THEN [dated EXCEPT !.parents = parentids]
                                   ELSE dated
                      IN  IF walk = <<"KeyError">>
                          THEN [err |-> "KeyError", out |-> <<shown>>]
                          ELSE [err |-> "",
                                out |-> <<[shown EXCEPT
                                             !.ancestors = walk,
                                             !.members = MembersOf(cs.entries),
                                             !.complete = TRUE]>>]

\* createlog raised logerror: the error is written and debugcvsps returns
\* with status 1 set for the program
ExceptExits ==
    /\ phase = "createlog"
    /\ pc = "error"
    /\ err = "logerror"
    /\ stdout' = Append(stdout, [kind |-> "logerror"])
    /\ status' = 1
    /\ phase' = "exit"
    /\ UNCHANGED <<pc, log, err, opts, off, taken, dbranches, ancestors>>
    /\ UNCHANGED <<csvars, logvars>>

\* createlog raised logerror: the error is written and debugcvsps returns
\* (cvsps.py:884-886); main returns and the program ends (cvsps.py:1086-1089)
Except ==
    /\ phase = "createlog"
    /\ pc = "error"
    /\ err = "logerror"
    /\ stdout' = Append(stdout, [kind |-> "logerror"])
    /\ status' = 0
    /\ phase' = "exit"
    /\ UNCHANGED <<pc, log, err, opts, off, taken, dbranches, ancestors>>
    /\ UNCHANGED <<csvars, logvars>>

\* Any other exception leaves debugcvsps and main (cvsps.py:884, 1086-1089):
\* the interpreter prints the traceback and ends with status 1
Traceback ==
    /\ phase \in {"createlog", "createchangeset", "print"}
    /\ pc \in {"error", "printerror"}
    /\ ~(phase = "createlog" /\ err = "logerror")
    /\ status' = 1
    /\ phase' = "exit"
    /\ UNCHANGED <<pc, log, err, opts, off, taken, dbranches, ancestors,
                   stdout>>
    /\ UNCHANGED <<csvars, logvars>>

\* createlog has returned: createchangeset is called (cvsps.py:888)
CallCreatechangeset ==
    /\ phase = "createlog"
    /\ pc = "done"
    /\ pc' = "sort"
    /\ phase' = "createchangeset"
    /\ UNCHANGED <<log, err, opts, off, taken, dbranches, ancestors, stdout,
                   status>>
    /\ UNCHANGED <<csvars, logvars>>

\* createchangeset has returned: the printing loop is entered
\* (cvsps.py:889-896)
PrintStart ==
    /\ phase = "createchangeset"
    /\ pc = "done"
    /\ phase' = "print"
    /\ pc' = IF changesets = <<>> THEN "return" ELSE "print"
    /\ off' = Len(opts.revisions)
    /\ taken' = 0
    /\ dbranches' = EmptyDict
    /\ ancestors' = EmptyDict
    /\ UNCHANGED <<log, err, opts, stdout, status>>
    /\ UNCHANGED <<csvars, logvars>>

\* have we seen the start tag? (cvsps.py:953-957)
Started(revisions, offv, cs) ==
    /\ revisions # <<>>
    /\ offv # 0
    /\ Matches(revisions[1], cs)

BreakBeforeStart(revisions, offv, cs) ==
    /\ Len(revisions) > 1
    /\ Matches(revisions[2], cs)

\* see if we reached the end tag (cvsps.py:959-963)
Break(revisions, offv, cs) ==
    /\ Len(revisions) > 1
    /\ offv = 0
    /\ Matches(revisions[2], cs)

\* One iteration of the printing loop (cvsps.py:896-963)
PrintStep ==
    /\ phase = "print"
    /\ pc = "print"
    /\ LET cs == heap[changesets[taken + 1]]
           first == heap[cs.parents[1]]
           anc == IF /\ opts.ancestors
                     /\ cs.branch \notin DOMAIN dbranches
                     /\ cs.parents # <<>>
                     /\ first.id # 0
                  THEN Put(ancestors, cs.branch,
                           <<heap[changesets[first.id]].branch, first.id>>)
                  ELSE ancestors
           dbr == IF opts.ancestors THEN Put(dbranches, cs.branch, cs.id)
                  ELSE dbranches
           skipped == /\ opts.branches # {}
                      /\ BranchName(cs.branch) \notin opts.branches
           last == taken + 1 = Len(changesets)
       IN  /\ ancestors' = anc
           /\ dbranches' = dbr
           /\ taken' = taken + 1
           /\ IF skipped
              THEN /\ pc' = IF last THEN "return" ELSE "print"
                   /\ UNCHANGED <<off, stdout, err>>
              ELSE \E p \in {IF off = 0 THEN Patch(cs, opts, anc, dbr)
                             ELSE [err |-> "", out |-> <<>>]} :
                      /\ stdout' = stdout \o p.out
                      /\ err' = p.err
                      /\ IF p.err # ""
                         THEN /\ pc' = "printerror"
                              /\ off' = off
                         ELSE LET off1 == IF Started(opts.revisions, off, cs)
                                          THEN 0 ELSE off
                              IN  /\ off' = off1
                                  /\ pc' = IF \/ Break(opts.revisions, off1, cs)
                                              \/ last
                                           THEN "return" ELSE "print"
    /\ UNCHANGED <<log, opts, phase, status>>
    /\ UNCHANGED <<csvars, logvars>>

\* The loop is left: debugcvsps and main return and the program ends with
\* status 0 (cvsps.py:896, 963, 1086-1089)
Return ==
    /\ phase = "print"
    /\ pc = "return"
    /\ status' = 0
    /\ phase' = "exit"
    /\ UNCHANGED <<pc, log, err, opts, off, taken, dbranches, ancestors,
                   stdout>>
    /\ UNCHANGED <<csvars, logvars>>

\* The runs of the program: the options, the output of cvs rlog and the
\* cache file.  A history of file a with a branch BR and the tags T (on
\* 1.1) and T2 (on 1.2) and of file b, printed under every choice of
\* markers, branches, --parents and --ancestors; ...
PathC == <<"r", "/", "c", ",", "v">>

CliSyms == << <<"BR", R1102>>, <<"T", R11>>, <<"T2", R12>> >>

History(comment) ==
    RecordHead(PathA, CliSyms)
        \o RevBlock(R12, PlainDate(2), <<TextLine(comment)>>)
        \o RevBlock(R11, PlainDate(0), <<TextLine("m")>>)
        \o RevBlock(R1121, PlainDate(1), <<TextLine("n")>>)
        \o <<Sep32>>
        \o RecordHead(PathB, NoSyms("b"))
        \o RevBlock(R11, PlainDate(3), <<TextLine("n")>>)
        \o <<Sep32>>

Histories ==
    {History(c) : c \in {"m", "m {{mergetobranch BR}}",
                         "m {{mergefrombranch BR}}"}}

\* ... a commit message that names a branch that does not exist; ...
NoSuchBranch == History("m {{mergefrombranch X}}")

\* ... a branch made in the second of its branchpoint's commit, which is
\* also that of a commit to another file; ...
SameSecond ==
    RecordHead(PathA, <<<<"BR", R1102>>>>)
        \o RevBlock(R11, PlainDate(1), <<TextLine("c")>>)
        \o RevBlock(R1121, PlainDate(1), <<TextLine("a")>>)
        \o <<Sep32>>
        \o RecordHead(PathC, <<<<"BR", R1102>>>>)
        \o RevBlock(R11, PlainDate(1), <<TextLine("c")>>)
        \o <<Sep32>>
        \o RecordHead(PathB, NoSyms("b"))
        \o RevBlock(R11, PlainDate(1), <<TextLine("b")>>)
        \o <<Sep32>>

\* ... two commits of one second, each with the first revision of one
\* file and the second revision of the other; ...
Crossed ==
    RecordHead(PathA, NoSyms("a"))
        \o RevBlock(R12, PlainDate(1), <<TextLine("n")>>)
        \o RevBlock(R11, PlainDate(1), <<TextLine("m")>>)
        \o <<Sep32>>
        \o RecordHead(PathB, NoSyms("b"))
        \o RevBlock(R12, PlainDate(1), <<TextLine("m")>>)
        \o RevBlock(R11, PlainDate(1), <<TextLine("n")>>)
        \o <<Sep32>>

\* ... a file added on a branch and then merged from the trunk; ...
SyntheticParent ==
    RecordHead(PathA, BranchSyms("a"))
        \o RevBlock(R12, DateLine(<<1, 0>>, "u", FALSE, None, R11),
                    <<TextLine("m")>>)
        \o RevBlock(R11, DateLine(<<0, 0>>, "u", TRUE, None, <<>>),
                    <<TextLine(SynComment("a"))>>)
        \o <<Sep32>>

Markers == {"1", "2", "4", "T2"}

MarkerLists ==
    {<<>>} \cup {<<m>> : m \in Markers}
        \cup {<<m1, m2>> : m1 \in Markers, m2 \in Markers}

\* ... and the failing and malformed outputs and the cache files of the
\* runs of createlog, under the cache options.
CliRuns ==
    {[input |-> text, readable |-> FALSE, cachefile |-> <<>>,
      opts |-> [revisions |-> r, branches |-> b, ancestors |-> a,
                parents |-> q, new_cache |-> TRUE, update_cache |-> FALSE]] :
        text \in Histories, r \in MarkerLists,
        b \in {{}, {"HEAD"}, {"BR"}}, a \in BOOLEAN, q \in BOOLEAN}
    \cup
    {[input |-> text, readable |-> FALSE, cachefile |-> <<>>,
      opts |-> [NoOpts EXCEPT !.ancestors = a, !.parents = q,
                              !.new_cache = TRUE]] :
        text \in ErrorTexts
                     \cup {SameSecond, Crossed, SyntheticParent, NoSuchBranch},
        a \in BOOLEAN, q \in BOOLEAN}
    \cup
    {[input |-> BaseRecord(PathA), readable |-> rd, cachefile |-> old,
      opts |-> [NoOpts EXCEPT !.update_cache = u]] :
        rd \in BOOLEAN, old \in OldLogs, u \in BOOLEAN}

\* main calls debugcvsps (cvsps.py:863-875, 1054-1086), which enters
\* createlog
InitCli ==
    /\ \E run \in CliRuns :
          /\ opts = run.opts
          /\ input = run.input
          /\ readable = run.readable
          /\ cachefile = run.cachefile
    /\ cache = CacheOf(opts)
    /\ rlog = TRUE
    /\ phase = "createlog"
    /\ off = 0
    /\ taken = 0
    /\ dbranches = EmptyDict
    /\ ancestors = EmptyDict
    /\ stdout = <<>>
    /\ status = -1
    /\ pc = "start"
    /\ err = ""
    /\ log = <<>>
    /\ CsIdle
    /\ nread = 0
    /\ launched = FALSE
    /\ written = FALSE
    /\ state = 0
    /\ peek = Eof
    /\ tags = EmptyDict
    /\ branchmap = EmptyDict
    /\ rcsmap = EmptyDict
    /\ rcs = ""
    /\ filename = ""
    /\ e = NoEntry
    /\ store = FALSE
    /\ oldlog = <<>>

NextCli ==
    \/ Start
    \/ ReadLine
    \/ Finish
    \/ Except
    \/ Traceback
    \/ CallCreatechangeset
    \/ SortLog
    \/ GroupStep
    \/ SortFiles
    \/ SortChangesets
    \/ CollectTags
    \/ ParentStep
    \/ Purge
    \/ Number
    \/ PrintStart
    \/ PrintStep
    \/ Return

SpecCli == InitCli /\ [][NextCli]_vars

-----------------------------------------------------------------------------
(* The properties of spec.md section 8 and the claims made of them         *)

\* createchangeset has returned the list changesets
Returned == pc = "done"

\* The changeset objects of the list, in list order
Out == [j \in DOMAIN changesets |-> heap[changesets[j]]]

EntrySums(c) == {DateSum(c.entries[j].date) : j \in DOMAIN c.entries}

Max(S) == CHOOSE x \in S : \A y \in S : y <= x
Min(S) == CHOOSE x \in S : \A y \in S : x <= y

DistinctFiles(c) ==
    \A x, y \in DOMAIN c.entries :
        x # y => c.entries[x].file # c.entries[y].file

\* C1 as claimed (P3): in every returned changeset, with or without a
\* commitid, no two entries have the same file path.
C1_NoFileTwice ==
    Returned => \A j \in DOMAIN Out : DistinctFiles(Out[j])

\* C1 as amended: in every returned changeset whose entries have no
\* commitid no two entries have the same file path (entries with one
\* commitid are grouped whatever their files are).
C1_NoFileTwiceWithoutCommitid ==
    Returned =>
        \A j \in DOMAIN Out : Out[j].commitid = None => DistinctFiles(Out[j])

\* C1's case: two revisions of one file that agree in all that is compared
\* but the file, the later within fuzz of the earlier, returned in two
\* changesets.
C1_Witness ==
    /\ Returned
    /\ \E x, y \in DOMAIN Out :
          /\ x # y
          /\ Out[x].commitid = None /\ Out[y].commitid = None
          /\ Out[x].comment = Out[y].comment
          /\ Out[x].branchpoints = Out[y].branchpoints
          /\ Out[x].branch = Out[y].branch
          /\ Out[x].files \cap Out[y].files # {}
          /\ DateSum(Out[x].date) <= DateSum(Out[y].date)
          /\ DateSum(Out[y].date) < DateSum(Out[x].date) + fuzz

\* C2 as claimed (P4): in every returned changeset without commitid the
\* largest and the smallest entry date differ by less than fuzz.
C2_FuzzBound ==
    Returned =>
        \A j \in DOMAIN Out :
            (Out[j].commitid = None /\ Out[j].entries # <<>>) =>
                Max(EntrySums(Out[j])) - Min(EntrySums(Out[j])) < fuzz

\* C2 as amended: in every returned changeset without commitid every entry
\* date but the smallest is less than fuzz after a smaller entry date of the
\* changeset (the window moves with each absorbed entry), so the largest and
\* the smallest differ by at most (entries - 1) * (fuzz - 1).
C2_FuzzChain ==
    Returned =>
        \A j \in DOMAIN Out :
            (Out[j].commitid = None /\ Out[j].entries # <<>>) =>
                LET sums == EntrySums(Out[j])
                IN  /\ \A x \in sums :
                          x # Min(sums) =>
                              \E y \in sums : y < x /\ x - y < fuzz
                    /\ Max(sums) - Min(sums)
                          <= (Len(Out[j].entries) - 1) * (fuzz - 1)

\* C2's case: a returned changeset without commitid that absorbed two
\* entries and spans fuzz or more.
C2_Witness ==
    /\ Returned
    /\ \E j \in DOMAIN Out :
          /\ Out[j].commitid = None
          /\ Len(Out[j].entries) >= 3
          /\ Max(EntrySums(Out[j])) - Min(EntrySums(Out[j])) >= fuzz

\* C3 as claimed (P10): every returned changeset has 0, 1 or 2 parents.
C3_AtMostTwoParents ==
    Returned => \A j \in DOMAIN Out : Len(Out[j].parents) \in {0, 1, 2}

\* C4 as claimed (P7): no returned changeset is synthetic, and every parent
\* of a returned changeset is a non-synthetic changeset of the returned
\* list.
C4_NoSyntheticSurvivor ==
    Returned =>
        \A j \in DOMAIN Out :
            /\ ~Out[j].synthetic
            /\ \A x \in DOMAIN Out[j].parents :
                  /\ ~heap[Out[j].parents[x]].synthetic
                  /\ Out[j].parents[x] \in Range(changesets)

C6_TagUniqueness ==
    Returned =>
        \A j \in DOMAIN Out : \A t \in Range(Out[j].tags) :
            /\ \A j2 \in DOMAIN Out : t \in Range(Out[j2].tags) => j2 = j
            /\ t \in EntryTags(Out[j])
            /\ \A j2 \in DOMAIN Out : j2 > j => t \notin EntryTags(Out[j2])

\* C6's case: two returned changesets have an entry carrying the same tag,
\* and the later one lists it.
C6_Witness ==
    /\ Returned
    /\ \E x, y \in DOMAIN Out :
          /\ x < y
          /\ \E t \in EntryTags(Out[x]) \cap EntryTags(Out[y]) :
                t \in Range(Out[y].tags)

\* C7 (P8): in the returned list the dates, as unixtime + tz, never fall
\* from one changeset to the next.
C7_DateMonotone ==
    Returned =>
        \A j \in DOMAIN Out :
            j < Len(Out) => DateSum(Out[j].date) <= DateSum(Out[j + 1].date)

\* C7's case: the returned list holds an inserted merge changeset between
\* two others, a synthetic changeset was purged, and the log was not in
\* date order when it was grouped.
C7_Witness ==
    /\ Returned
    /\ \E j \in DOMAIN Out :
          /\ 1 < j /\ j < Len(Out)
          /\ Out[j].entries = <<>>
          /\ DateSum(Out[j].date) < DateSum(Out[j + 1].date)
    /\ \E c \in DOMAIN heap : heap[c].synthetic
    /\ \E x \in DOMAIN log :
          x < Len(log) /\ DateSum(log[x].date) > DateSum(log[x + 1].date)

\* C8 (P9): the ids of the returned changesets are 1..N in list order.
C8_IdsDense ==
    Returned => \A j \in DOMAIN Out : Out[j].id = j

\* C8's case: the returned list holds an inserted merge changeset and has
\* lost a purged synthetic changeset that stood before one it returns.
C8_Witness ==
    /\ Returned
    /\ \E j \in DOMAIN Out : Out[j].entries = <<>>
    /\ \E c \in DOMAIN heap :
          /\ heap[c].synthetic
          /\ \E j \in DOMAIN Out : c < changesets[j]

\* The digits of a number and the revision string of a tuple of numbers
DigitChar(d) ==
    CASE d = 0 -> "0" [] d = 1 -> "1" [] d = 2 -> "2" [] d = 3 -> "3"
      [] d = 4 -> "4" [] d = 5 -> "5" [] d = 6 -> "6" [] d = 7 -> "7"
      [] d = 8 -> "8" [] d = 9 -> "9"

RECURSIVE IntChars(_)
IntChars(m) ==
    IF m < 10 THEN <<DigitChar(m)>>
    ELSE IntChars(m \div 10) \o <<DigitChar(m % 10)>>

RevText(rev) == JoinChars([j \in DOMAIN rev |-> IntChars(rev[j])], ".")

\* The entries the parser has emitted in this run
Parsing == pc = "read" \/ (pc = "error" /\ launched)

GoodShape(rev) ==
    Len(rev) >= 2 /\ Len(rev) % 2 = 0 /\ rev[Len(rev) - 1] # 0

\* C9 as claimed (P1): every entry the parser emits, whatever revision its
\* header line carries, has a revision of even length >= 2 whose
\* penultimate component is not the magic-branch zero.
C9_RevisionShape ==
    Parsing => \A j \in DOMAIN log : GoodShape(log[j].revision)

\* C9 as amended: the revision of every entry the parser emits is the
\* tuple of the numbers of a revision header line read so far, as written,
\* with no component collapsed or dropped; so it has even length >= 2 and
\* no magic-branch zero exactly when the header's revision has.
C9_RevisionAsWritten ==
    Parsing =>
        \A j \in DOMAIN log :
            \E l \in 1..nread :
                /\ input[l].kind = "revision"
                /\ RevText(log[j].revision) = input[l].chars

\* C9's case: the parser has emitted an entry for the header "revision
\* 1.1.0.2" and one for the header "revision 1.1.1".
C9_Witness ==
    /\ pc = "read"
    /\ \E x, y \in DOMAIN log :
          /\ log[x].revision = <<1, 1, 0, 2>>
          /\ log[y].revision = <<1, 1, 1>>

\* The new entries of the log createlog returns: those after the old ones
NewEntries == {j \in DOMAIN log : j > Len(oldlog)}

\* C10 (P2): when createlog has returned, the parent of every new entry
\* is the revision of another entry of the returned log (old or new) of
\* the same rcs file, or it is the entry's revision[:-2].
C10_ParentReachability ==
    pc = "done" =>
        \A x \in NewEntries :
            \/ log[x].parent = ButLast2(log[x].revision)
            \/ \E y \in DOMAIN log :
                  /\ y # x
                  /\ log[y].rcs = log[x].rcs
                  /\ log[y].revision = log[x].parent

\* C10's case: createlog has returned a new entry of a file now in the
\* Attic whose parent is not its revision[:-2] but the revision of an
\* entry of the cache, and a new entry whose parent is the revision of
\* another new entry.
C10_Witness ==
    /\ pc = "done"
    /\ \E x \in NewEntries : \E y \in DOMAIN log \ NewEntries :
          /\ log[x].rcs = "r/Attic/a,v"
          /\ log[y].rcs = log[x].rcs
          /\ log[y].revision = log[x].parent
          /\ log[x].parent # ButLast2(log[x].revision)
    /\ \E x, y \in NewEntries :
          /\ x # y
          /\ log[y].rcs = log[x].rcs
          /\ log[y].revision = log[x].parent
          /\ log[x].parent # ButLast2(log[x].revision)

\* The trunk revisions of the rcs file of entry x that are lower than x's
LowerTrunk(x) ==
    {y \in DOMAIN log :
        /\ log[y].rcs = log[x].rcs
        /\ Len(log[y].revision) = 2
        /\ TupleLt(log[y].revision, log[x].revision)}

\* C11 as claimed: when createlog has returned, a new entry has the empty
\* parent only if it is the lowest trunk revision of its rcs file, and
\* every other new trunk revision (2.1 after 1.x included) has the
\* preceding trunk revision of the file as parent.
C11_AbsentParentOnlyFirst ==
    pc = "done" =>
        \A x \in NewEntries :
            /\ log[x].parent = <<>> =>
                  (Len(log[x].revision) = 2 /\ LowerTrunk(x) = {})
            /\ (Len(log[x].revision) = 2 /\ LowerTrunk(x) # {}) =>
                  \E y \in LowerTrunk(x) :
                      /\ log[x].parent = log[y].revision
                      /\ \A z \in LowerTrunk(x) :
                            ~TupleLt(log[y].revision, log[z].revision)

\* C12 as claimed: every returned changeset has a non-empty entries list,
\* the changesets inserted for a mergeto marker included.
C12_EntriesNonEmpty ==
    Returned => \A j \in DOMAIN Out : Out[j].entries # <<>>

\* C13 as claimed: an entry with synthetic = true is alone in its
\* changeset, which is synthetic from its founding until the purge; so no
\* returned changeset contains a synthetic entry.
C13_SyntheticAlone ==
    /\ \A c \in DOMAIN heap :
          (\E x \in DOMAIN heap[c].entries : heap[c].entries[x].synthetic) =>
              (Len(heap[c].entries) = 1 /\ heap[c].synthetic)
    /\ Returned =>
          \A j \in DOMAIN Out : \A x \in DOMAIN Out[j].entries :
              ~Out[j].entries[x].synthetic

\* Entry x and a later entry y of the log, of different files, without
\* commitid and equal in author, branch, comment and branchpoints, where
\* no third entry without commitid has their comment; later is by the
\* date (unixtime, tz), which is what the log is sorted by
FuzzPair(x, y) ==
    /\ x # y
    /\ log[x].commitid = None /\ log[y].commitid = None
    /\ log[x].author = log[y].author
    /\ log[x].branch = log[y].branch
    /\ log[x].comment = log[y].comment
    /\ log[x].branchpoints = log[y].branchpoints
    /\ log[x].file # log[y].file
    /\ ~PairLt(log[y].date, log[x].date)
    /\ \A z \in DOMAIN log \ {x, y} :
          log[z].commitid # None \/ log[z].comment # log[x].comment

\* The entries of the changeset c, by file and revision
Members(c) ==
    {<<c.entries[j].file, c.entries[j].revision>> : j \in DOMAIN c.entries}

Together(x, y) ==
    \E c \in DOMAIN heap :
        /\ <<log[x].file, log[x].revision>> \in Members(heap[c])
        /\ <<log[y].file, log[y].revision>> \in Members(heap[c])

InWindow(x, y) ==
    /\ DateSum(log[x].date) <= DateSum(log[y].date)
    /\ DateSum(log[y].date) < DateSum(log[x].date) + fuzz

Inserted == {j \in DOMAIN Out : Out[j].entries = <<>>}

\* C15 as claimed: a merge changeset inserted for a mergeto marker of a
\* changeset on the trunk has exactly two parents and the comment
\* 'convert-repo: CVS merge from branch HEAD'.
C15_MergeFromTrunkComment ==
    Returned =>
        \A j \in Inserted :
            heap[Out[j].parents[1]].branch = None =>
                /\ Len(Out[j].parents) = 2
                /\ Out[j].comment = "convert-repo: CVS merge from branch HEAD"

\* C19 as claimed: in cache mode 'read' createlog never launches cvs and
\* never writes the cache file, whether or not the cache file could be
\* read, and returns the list loaded from the cache.
C19_ReadOnlyLoads ==
    cache = "read" =>
        /\ ~launched
        /\ ~written
        /\ pc = "done" => log = (IF readable THEN cachefile ELSE <<>>)

\* C19 as amended: in cache mode 'read', when the cache file can be read
\* createlog never launches cvs, never writes the cache file and returns
\* the list loaded from it; when the cache file cannot be read createlog
\* launches cvs, and writes the cache file when it returns a log that is
\* not empty.
C19_ReadLoadsOrRebuilds ==
    cache = "read" =>
        /\ readable =>
              /\ ~launched
              /\ ~written
              /\ pc = "done" => log = cachefile
        /\ (~readable /\ pc # "start") =>
              /\ launched
              /\ pc = "done" => (written <=> log # <<>>)

\* C19's case: createlog has returned, in mode 'read', the entries of a
\* cache file it could read.
C19_Witness ==
    /\ cache = "read"
    /\ readable
    /\ pc = "done"
    /\ cachefile # <<>>
    /\ log = cachefile

\* The lines cvs prints when it fails
ErrorKinds == {"aborted", "cvsmsg", "noaccess"}

\* C20 as claimed: a line of one of the error shapes read in state 0
\* raises LogError.
C20_ErrorLinesRaise ==
    [][(pc = "read" /\ state = 0 /\ peek.kind \in ErrorKinds)
          => (pc' = "error" /\ err' = "logerror")]_vars

\* C18 as stated: a run in which createlog raised logerror ends with a
\* non-zero exit status and the error reported, and only runs without an
\* error end with exit status 0.
C18_LogErrorExitsNonZero ==
    phase = "exit" =>
        /\ err = "logerror" =>
              status # 0 /\ [kind |-> "logerror"] \in Range(stdout)
        /\ status = 0 => err = ""

\* C18 as the program behaves: debugcvsps catches logerror, writes the
\* error and returns, so the run ends with exit status 0 and the error as
\* its only output; the exit status is non-zero exactly when another
\* exception (AssertionError, ValueError, KeyError, TypeError,
\* AttributeError) leaves main.
C18_LogErrorExitsZero ==
    phase = "exit" =>
        /\ err = "logerror" =>
              status = 0 /\ stdout = <<[kind |-> "logerror"]>>
        /\ status # 0 <=> err \notin {"", "logerror"}
        /\ status \in {0, 1}

\* C18: a run in which createlog raised logerror has ended
C18_Witness == phase = "exit" /\ err = "logerror" /\ status = 0

\* The changesets the printing loop does not skip (the -b option), those of
\* them that match a marker, and the ids that were printed
Eligible ==
    {j \in DOMAIN changesets :
        \/ opts.branches = {}
        \/ BranchName(heap[changesets[j]].branch) \in opts.branches}

Marked(marker) ==
    {j \in Eligible : Matches(marker, heap[changesets[j]])}

Least(S) == CHOOSE j \in S : \A other \in S : j <= other

PrintedIds == {stdout[j].id : j \in DOMAIN stdout}

LoopLeft == phase = "print" /\ pc = "return"

\* C17 as stated: with -r markers, the changesets printed are those from
\* the first one matching the start marker through the first later one
\* matching the end marker (to the end of the list with one marker), both
\* ends included.
C17_RangeInclusive ==
    (LoopLeft /\ opts.revisions # <<>> /\ Marked(opts.revisions[1]) # {}) =>
        LET first == Least(Marked(opts.revisions[1]))
            ends == IF Len(opts.revisions) > 1
                    THEN {j \in Marked(opts.revisions[2]) : j > first}
                    ELSE {}
        IN  (Len(opts.revisions) > 1 => ends # {}) =>
                PrintedIds =
                    {j \in Eligible :
                        /\ j >= first
                        /\ ends # {} => j <= Least(ends)}

\* C17 as the program behaves: among the changesets that -b does not skip,
\* the first one matching the start marker is not printed; printing begins
\* with the next one and ends, with two markers, with the first changeset
\* at or after the start one that matches the end marker, which is printed
\* unless it is the start one; without such a changeset, and with one
\* marker, printing goes to the end of the list, and without a changeset
\* matching the start marker nothing is printed.  The changesets are
\* printed in the order of their ids, and a run that ends in an exception
\* has printed no other changesets than these.
C17_RangeAfterStart ==
    LET starts == IF opts.revisions = <<>> THEN {}
                  ELSE Marked(opts.revisions[1])
        first == Least(starts)
        ends == IF Len(opts.revisions) > 1
                THEN {j \in Marked(opts.revisions[2]) : j >= first}
                ELSE {}
        range == IF opts.revisions = <<>> THEN Eligible
                 ELSE IF starts = {} THEN {}
                 ELSE {j \in Eligible :
                          /\ j > first
                          /\ ends # {} => j <= Least(ends)}
    IN  /\ LoopLeft => PrintedIds = range
        /\ (phase = "print" /\ pc \in {"print", "printerror"}) =>
              PrintedIds \subseteq range
        /\ phase = "print" =>
              \A j, l \in DOMAIN stdout : j < l => stdout[j].id < stdout[l].id

\* C17: a run with two markers has printed the changesets after the start
\* one through the end one, and the start one matched before the end one
C17_Witness ==
    /\ LoopLeft
    /\ Len(opts.revisions) = 2
    /\ opts.branches = {}
    /\ Marked(opts.revisions[1]) # {}
    /\ LET first == Least(Marked(opts.revisions[1]))
       IN  /\ first \notin PrintedIds
           /\ first + 1 \in PrintedIds
           /\ \E j \in Marked(opts.revisions[2]) :
                 j > first + 1 /\ j \in PrintedIds /\ j + 1 \in DOMAIN changesets
                    /\ j + 1 \notin PrintedIds

\* The magic branch numbers of the symbolic names in the output of cvs rlog:
\* the line, its numbers a.b.0.n, and the RCS file line of its record
Magic ==
    {j \in DOMAIN input :
        /\ input[j].kind = "sym"
        /\ LET rev == parse_revision(input[j].chars)
           IN  Len(rev) >= 4 /\ Len(rev) % 2 = 0 /\ rev[Len(rev) - 1] = 0}

RcsLineOf(j) ==
    CHOOSE l \in 1..j :
        /\ input[l].kind = "rcs"
        /\ \A other \in (l + 1)..j : input[other].kind # "rcs"

\* The entries of the log that come from the record of line j
EntriesOf(j) ==
    {x \in DOMAIN log : log[x].rcs = Str(input[RcsLineOf(j)].chars)}

\* The positions, in the list createchangeset returns, of the changesets
\* that hold entry x and of the changesets on branch name
Holding(x) ==
    {q \in DOMAIN changesets :
        <<log[x].file, log[x].revision>> \in Members(heap[changesets[q]])}

OnBranch(name) ==
    {q \in DOMAIN changesets : heap[changesets[q]].branch = name}

\* C16: when createchangeset has returned the changesets of the log that
\* createlog made of the output of cvs rlog alone (no entries came from the
\* cache), for every symbolic name
\* BR: a.b.0.n of a file, the file's entry a.b has the branchpoint BR, its
\* entries a.b.n.k have the branch BR, its entry a.b.n.1 has the parent
\* a.b, and every changeset on BR comes after the changeset holding a.b.
C16_BranchAfterBranchpoint ==
    (phase = "createchangeset" /\ pc = "done" /\ launched /\ oldlog = <<>>) =>
        \A j \in Magic :
            LET rev == parse_revision(input[j].chars)
                base == ButLast2(rev)
                stem == Append(base, rev[Len(rev)])
                name == input[j].name
            IN  \A x \in EntriesOf(j) :
                    /\ log[x].revision = base =>
                          /\ name \in log[x].branchpoints
                          /\ \A p \in Holding(x) :
                                \A q \in OnBranch(name) : p < q
                    /\ ButLast(log[x].revision) = stem =>
                          log[x].branch = name
                    /\ log[x].revision = Append(stem, 1) =>
                          log[x].parent = base

\* The positions (from 1) of the changesets on branch b among the first
\* upto changesets of the list
PositionsOn(b, upto) ==
    {l \in 1..upto : heap[changesets[l]].branch = b}

\* C21: during and after the parent pass, the branch map maps the branch
\* of every changeset processed so far (those that triggered a mergeto
\* insertion and the inserted ones included) to the index of the latest
\* processed changeset on that branch, so that the next changeset on the
\* branch takes it as its primary parent candidate.
C21_BranchMapLatest ==
    (pc \in {"parents", "purge"} /\ phase = "lib") =>
        \A j \in 1..i :
            LET b == heap[changesets[j]].branch
            IN  /\ b \in DOMAIN branches
                /\ branches[b] = Max(PositionsOn(b, i)) - 1

\* The branch the mergeto marker of the changeset about to be processed
\* names, and whether the parent pass will insert a merge changeset for it
MergeTarget == HeadToNone(MergeToMatch(heap[changesets[i + 1]].comment))

Inserting ==
    /\ pc = "parents"
    /\ MergeTarget # ""
    /\ MergeTarget \in DOMAIN branches
    /\ heap[changesets[i + 1]].branch # MergeTarget

\* C22: a step of the parent pass on a changeset c at index i whose
\* comment names, in a mergeto marker, a branch m of the map other than
\* c's own, and that does not raise, inserts exactly one changeset, at
\* index i + 1, with the author and the date of c, the branch m and the
\* parents [c, the changeset the map held for m]; it points m at the
\* inserted changeset, leaves every other index of the map referring to
\* the changeset it referred to, and resumes at index i + 2.
C22_MergeInsertion ==
    [][(Inserting /\ pc' # "error") =>
          LET c == changesets[i + 1]
              cc == heap'[changesets'[i + 2]]
          IN  /\ Len(changesets') = Len(changesets) + 1
              /\ \A j \in 1..(i + 1) : changesets'[j] = changesets[j]
              /\ \A j \in (i + 2)..Len(changesets) :
                    changesets'[j + 1] = changesets[j]
              /\ changesets'[i + 2] \notin Range(changesets)
              /\ cc.author = heap[c].author
              /\ cc.date = heap[c].date
              /\ cc.branch = MergeTarget
              /\ cc.parents = <<c, changesets[branches[MergeTarget] + 1]>>
              /\ branches'[MergeTarget] = i + 1
              /\ DOMAIN branches' = DOMAIN branches
              /\ \A b \in DOMAIN branches \ {MergeTarget} :
                    changesets'[branches'[b] + 1] = changesets[branches[b] + 1]
              /\ i' = i + 2
              /\ n' = n + 1]_vars

\* C22: a merge changeset was just inserted while the map held another
\* branch
C22_Witness ==
    /\ pc \in {"parents", "purge"}
    /\ i >= 2
    /\ heap[changesets[i]].entries = <<>>
    /\ branches[heap[changesets[i]].branch] = i - 1
    /\ Cardinality(DOMAIN branches) >= 2
    /\ heap[changesets[i]].date # heap[heap[changesets[i]].parents[2]].date

\* The changeset the parent pass is about to process, its primary parent
\* candidate (an index; -1 when there is none, -2 when the scan raises) and
\* its primary parent after the synthetic changesets are skipped (a
\* reference; 0 when there is none, -1 when the assertion fails), as
\* ParentStep computes them (cvsps.py:758-791)
Current == heap[changesets[i + 1]]

PrimaryCandidate ==
    IF Current.branch \in DOMAIN branches THEN branches[Current.branch]
    ELSE ScanCandidates(heap, changesets, Current.branch, i, 0, -1)

PrimaryParent ==
    IF PrimaryCandidate < 0 THEN 0
    ELSE SkipSynthetic(heap, changesets[PrimaryCandidate + 1])

PrimaryCount == IF PrimaryParent > 0 THEN 1 ELSE 0

\* A step of the parent pass that does not raise
Processed == pc = "parents" /\ pc' # "error"

\* C23 as stated: a step of the parent pass on a changeset whose mergepoint
\* is a branch B other than HEAD appends the latest preceding changeset
\* on B right after the primary parent, and a step on a changeset whose
\* mergepoint is HEAD (and whose comment has no mergefrom marker) appends
\* no parent but the primary one.
C23_NoParentForHead ==
    [][(Processed /\ Current.mergepoint # None) =>
          LET after == heap'[changesets[i + 1]].parents
          IN  IF Current.mergepoint = "HEAD"
              THEN MergeFromMatch(Current.comment) = "" =>
                      Len(after) = PrimaryCount
              ELSE /\ Len(after) > PrimaryCount
                   /\ after[PrimaryCount + 1] =
                          changesets[Max(PositionsOn(Current.mergepoint, i))]
       ]_vars

\* C23 as the program behaves: a step of the parent pass on a changeset
\* with a mergepoint, HEAD (the trunk, None in the map) or a branch name,
\* raises when the branch map has no entry for the mergepoint's branch, and
\* otherwise appends, right after the primary parent if there is one, the
\* changeset the map holds for that branch, which is a changeset on that
\* branch earlier in the list.
C23_MergepointParent ==
    [][(pc = "parents" /\ Current.mergepoint # None) =>
          LET mp == HeadToNone(Current.mergepoint)
              after == heap'[changesets[i + 1]].parents
          IN  IF mp \notin DOMAIN branches THEN pc' = "error"
              ELSE pc' # "error" =>
                      /\ Len(after) > PrimaryCount
                      /\ after[PrimaryCount + 1] = changesets[branches[mp] + 1]
                      /\ branches[mp] < i
                      /\ heap[changesets[branches[mp] + 1]].branch = mp
       ]_vars

\* C23: a changeset on BR whose revision has a mergepoint on the trunk was
\* processed and has a trunk changeset as second parent
C23_Witness ==
    /\ pc \in {"parents", "purge"}
    /\ \E j \in 1..i :
          LET c == heap[changesets[j]]
          IN  /\ c.entries # <<>>
              /\ c.entries[1].mergepoint = "HEAD"
              /\ c.branch = "BR"
              /\ Len(c.parents) = 2
              /\ heap[c.parents[1]].branch = "BR"
              /\ heap[c.parents[2]].branch = None

\* The branch the mergefrom marker of the changeset about to be processed
\* names, and whether its step raises before it reaches the mergefrom step
\* (cvsps.py:771, 782, 796)
MergeSource == HeadToNone(MergeFromMatch(Current.comment))

RaisesBefore ==
    \/ PrimaryCandidate = -2
    \/ PrimaryParent = -1
    \/ /\ Current.mergepoint # None
       /\ HeadToNone(Current.mergepoint) \notin DOMAIN branches

\* C24: a step of the parent pass on a changeset whose comment names a
\* branch in a mergefrom marker does not raise in the mergefrom step; when
\* the branch is not in the branch map it emits one warning and appends no
\* merge parent, and when the branch is in the map it appends the changeset
\* the map holds for it if the branch is not the changeset's own and that
\* changeset is not synthetic, and nothing otherwise.
C24_MergeFromWarns ==
    [][(pc = "parents" /\ MergeSource # "" /\ ~RaisesBefore) =>
          LET after == heap'[changesets[i + 1]].parents
              base == PrimaryCount
                          + (IF Current.mergepoint # None THEN 1 ELSE 0)
          IN  /\ pc' # "error"
              /\ IF MergeSource \notin DOMAIN branches
                 THEN /\ Len(warnings') = Len(warnings) + 1
                      /\ Len(after) = base
                 ELSE LET candidate == changesets[branches[MergeSource] + 1]
                      IN  /\ warnings' = warnings
                          /\ IF /\ Current.branch # MergeSource
                                /\ ~heap[candidate].synthetic
                             THEN /\ Len(after) = base + 1
                                  /\ after[base + 1] = candidate
                             ELSE Len(after) = base
       ]_vars

\* Whether the changeset about to be processed is the first on its branch,
\* and the earlier indices whose changesets have that branch in their
\* branchpoints (a merge changeset has none)
FirstOnBranch == PositionsOn(Current.branch, i) = {}

Carrying ==
    {j \in 0..(i - 1) :
        LET bps == heap[changesets[j + 1]].branchpoints
        IN  bps # NoBranchpoints /\ Current.branch \in bps}

\* The last index of the first contiguous run of Carrying; -1 without one
RunEnd ==
    IF Carrying = {} THEN -1
    ELSE Max({j \in Carrying : \A l \in Min(Carrying)..j : l \in Carrying})

\* C25: when the parent pass comes to the first changeset on a branch b,
\* its primary parent candidate is the last index of the first contiguous
\* run of earlier changesets whose branchpoints contain b, and there is no
\* candidate (and the step appends no primary parent) when no earlier
\* changeset has b in its branchpoints.
C25_FirstOnBranchCandidate ==
    (pc = "parents" /\ FirstOnBranch) => PrimaryCandidate = RunEnd

\* C30: in the list createchangeset returns, every parent of a changeset
\* (primary, mergepoint or mergefrom parent, or parent of an inserted merge
\* changeset) is a changeset of the list at an earlier position, that is
\* with a smaller id.
C30_ParentsEarlier ==
    Returned =>
        \A j \in DOMAIN changesets :
            \A x \in DOMAIN Out[j].parents :
                \E l \in 1..(j - 1) :
                    /\ changesets[l] = Out[j].parents[x]
                    /\ heap[changesets[l]].id < Out[j].id

\* Two changesets of the list of one second (equal unixtime + tz)
SameSecondAt(x, y) ==
    /\ x # y
    /\ DateSum(Out[x].date) = DateSum(Out[y].date)

\* C26: when the changesets have been sorted, of two changesets of one
\* second of which one is a child of the other and not the reverse, the
\* parent comes first; a pair of changesets that are children of each
\* other is recorded as odd, and the numbering step emits a warning for
\* every odd pair whose changesets are both in the list, and returns.
C26_ChildAfterParent ==
    /\ [](pc = "tags" =>
            \A x, y \in DOMAIN changesets :
                SameSecondAt(x, y) =>
                    /\ ((is_child(Out[x], Out[y]) /\ ~is_child(Out[y], Out[x]))
                          => y < x)
                    /\ ((is_child(Out[x], Out[y]) /\ is_child(Out[y], Out[x]))
                          => \/ <<changesets[x], changesets[y]>> \in odd
                             \/ <<changesets[y], changesets[x]>> \in odd))
    /\ [][pc = "number" =>
            /\ pc' = "done"
            /\ \A p \in odd :
                  (p[1] \in Range(changesets) /\ p[2] \in Range(changesets))
                      => \E w \in Range(warnings') :
                            /\ w.kind = "both before and after"
                            /\ w.l = p[1]
                            /\ w.r = p[2]
       ]_vars

\* Neither changeset is a child of the other
Unrelated(l, r) == ~is_child(l, r) /\ ~is_child(r, l)

\* C27: when the changesets have been sorted, of two changesets of one
\* second with no child relation in either direction the one with more
\* entries comes first in the list.
C27_BiggerFirst ==
    pc = "tags" =>
        \A x, y \in DOMAIN changesets :
            (/\ SameSecondAt(x, y)
             /\ Unrelated(Out[x], Out[y])
             /\ Len(Out[x].entries) > Len(Out[y].entries))
                => x < y

\* The grouping loop is over
GroupingDone == pc \in {"sortfiles", "sortcs", "tags", "parents", "purge",
                        "number", "done"}

\* C28: once the entries are grouped, the date of every changeset that has
\* entries is the latest date of its entries, in changesets without
\* commitid and in changesets with one.
C28_DateIsLatest ==
    (phase = "lib" /\ GroupingDone) =>
        \A j \in DOMAIN Out :
            Out[j].entries # <<>> =>
                DateSum(Out[j].date) = Max(EntrySums(Out[j]))

\* The entry being read is stored: it is the new last element of the log
StoresEntry ==
    /\ log' = Append(log, e')
    /\ e' = StoreEntry(tags, branchmap, e)

\* The line is appended to the comment and the entry goes on
AppendsToComment ==
    /\ state' = state
    /\ log' = log
    /\ e' = [e EXCEPT !.comment = Append(e.comment, peek.text)]

\* The entry of the revision header in the line is scaffolded and becomes
\* the entry being read
ScaffoldsEntry ==
    /\ state' = 6
    /\ log' = log
    /\ e'.revision = parse_revision(peek.chars)

\* C29: in states 7 and 8 a '----' line ends the entry (the entry is
\* stored, the state becomes 5) when the lookahead line is a revision
\* header and is appended to the comment otherwise; a '====' line ends the
\* entry and the state becomes 0.  A line read in state 5 without error
\* scaffolds an entry; that entry stays the entry being read, and out of
\* the log, while the state is 6, 7 or 8; it is appended to the log by the
\* step that leaves states 7 and 8, which a separator line takes; and no
\* other step changes the log: an entry whose record reaches its '====' is
\* appended once, and the entries are appended in the order of the input.
C29_SeparatorsEndEntries ==
    /\ [][(pc = "read" /\ state \in {7, 8} /\ re_31(peek)) =>
            IF re_50(Readline)
            THEN state' = 5 /\ StoresEntry
            ELSE AppendsToComment]_vars
    /\ [][(pc = "read" /\ state \in {7, 8} /\ re_32(peek)) =>
            (state' = 0 /\ StoresEntry)]_vars
    /\ [][(pc = "read" /\ pc' = "read" /\ peek # Eof) =>
            /\ state = 5 => ScaffoldsEntry
            /\ (state \in {6, 7, 8} /\ state' \in {7, 8})
                  => (log' = log /\ e'.revision = e.revision)
            /\ state \notin {7, 8} => log' = log
            /\ (state \in {7, 8} /\ state' \notin {7, 8})
                  => (StoresEntry /\ (re_31(peek) \/ re_32(peek)))]_vars

\* C29's case: a record has been ended by its '====' line and the entry
\* stored has a '----' line, which no revision header followed, in its
\* comment.
C29_Witness ==
    /\ pc = "read"
    /\ state = 0
    /\ Len(log) = 1
    /\ log[1].comment \in {Join(<<Sep31.text, "m">>), Join(<<"m", Sep31.text>>)}

\* C31: the parent pass of createchangeset raises nothing: no step of it
\* ends in an error, whatever the log, also after a merge changeset was
\* inserted and when a mergepoint names a branch the branch map does not
\* hold.
C31_ParentPassCompletes ==
    [][pc = "parents" => pc' # "error"]_vars

\* The places (changeset of the list, index in its entries) that hold ent
PlacesOf(ent) ==
    {p \in (DOMAIN Out) \X (1..Len(log)) :
        /\ p[2] \in DOMAIN Out[p[1]].entries
        /\ Out[p[1]].entries[p[2]] = ent}

\* The grouping loop is over and the purge has not run
BeforePurge == pc \in {"sortfiles", "sortcs", "tags", "parents", "purge"}

\* C32: once the entries are grouped and until the purge, every entry of
\* the log is at exactly one place of exactly one changeset of the list,
\* and the changesets hold nothing but entries of the log; in the list
\* createchangeset returns, every entry of the log that is not synthetic
\* is at exactly one place, and a returned changeset holds nothing but
\* entries of the log.
C32_GroupingPartitions ==
    /\ (phase = "lib" /\ BeforePurge) =>
          /\ \A j \in DOMAIN log : Cardinality(PlacesOf(log[j])) = 1
          /\ \A c \in DOMAIN Out : Range(Out[c].entries) \subseteq Range(log)
    /\ (phase = "lib" /\ Returned) =>
          /\ \A j \in DOMAIN log :
                ~log[j].synthetic => Cardinality(PlacesOf(log[j])) = 1
          /\ \A c \in DOMAIN Out :
                /\ Range(Out[c].entries) \subseteq Range(log)
                /\ \A x, y \in DOMAIN Out[c].entries :
                      Out[c].entries[x] = Out[c].entries[y] => x = y

\* C32's case: createchangeset has returned a list in which a changeset
\* holds two entries of the log, after the purge dropped the changeset of
\* a synthetic entry.
C32_Witness ==
    /\ phase = "lib"
    /\ Returned
    /\ \E c \in DOMAIN Out : Len(Out[c].entries) >= 2
    /\ \E j \in DOMAIN log : log[j].synthetic /\ PlacesOf(log[j]) = {}

\* C33: the state of the parser is one of 0, 1, 2, 3, 5, 6, 7 and 8, never
\* 4; and a '====' line read in state 3, at the end of the symbolic names
\* of a file without revisions, takes the parser back to state 0 with
\* nothing appended to the log and no error raised.
C33_StateFourNeverEntered ==
    /\ [](state \in {0, 1, 2, 3, 5, 6, 7, 8})
    /\ [][(pc = "read" /\ state = 3 /\ re_32(peek)) =>
            /\ state' = 0
            /\ log' = log
            /\ pc' = "read"
            /\ err' = ""]_vars

\* C33's case: the record of a file with symbolic names and no revision
\* has been read to its '====' line: the parser is in state 0, no entry
\* was scaffolded and the log is empty.
C33_Witness ==
    /\ pc = "read"
    /\ state = 0
    /\ err = ""
    /\ DOMAIN branchmap # {}
    /\ e = NoEntry
    /\ log = <<>>
    /\ nread >= 2
    /\ input[IF peek = Eof THEN nread ELSE nread - 1] = Sep32

====
